---- MODULE Spec2Model ----
(***************************************************************************)
(* Lease-accounting amortization engine: schedule generation, amortization *)
(* pass and post-passes, balance-at-date queries, current/non-current      *)
(* split, journal generation and bulk processing.                          *)
(*                                                                         *)
(* Dates are proleptic Gregorian ordinals, as datetime.date.toordinal().   *)
(* Money is an integer number of currency units; a factor (PV factor,      *)
(* growth factor) is an integer number of 1/Scale units.  The floating     *)
(* point power (1+R)^e of the source is its second-order binomial          *)
(* expansion, computed in fixed point; a Python None is the empty          *)
(* sequence and an Optional value v is <<v>>.                               *)
(***************************************************************************)
EXTENDS Integers, Sequences, FiniteSets, TLC

VARIABLES
    contract,     \* the LeaseData handed to the engine
    pc,           \* position of the caller: which call has returned
    outcome,      \* outcome of the last generate_complete_schedule call
    first,        \* outcome of the first of two calls on the same contract
    before,       \* the contract as it was before the first call
    rfr,          \* the global RFR rate table (_rfr_table.rate_tables)
    filters,      \* ProcessingFilters of the processor
    query,        \* the balance date of a balance-at-date query
    result,       \* LeaseResult / returned balances / returned dict
    journal,      \* JournalGenerator.journal_entries
    batch         \* state of ResultsProcessor.process_bulk_leases

vars == <<contract, pc, outcome, first, before, rfr, filters, query, result, journal, batch>>

-----------------------------------------------------------------------------
(* Python values *)

None == <<>>
Some(v) == <<v>>
IsNone(x) == x = <<>>
\* "x or 0.0" for an Optional number
OrZero(x) == IF x = <<>> THEN 0 ELSE x[1]
\* truthiness of an Optional number or date
Truthy(x) == x # <<>> /\ x[1] # 0

Min(a, b) == IF a <= b THEN a ELSE b
Max(a, b) == IF a >= b THEN a ELSE b
Abs(a) == IF a < 0 THEN 0 - a ELSE a

-----------------------------------------------------------------------------
(* Calendar: datetime.date and dateutil.relativedelta *)

IsLeap(y) == (y % 4 = 0) /\ ((y % 100 # 0) \/ (y % 400 = 0))

DaysInMonth(y, m) ==
    IF m = 2 THEN (IF IsLeap(y) THEN 29 ELSE 28)
    ELSE IF m \in {4, 6, 9, 11} THEN 30 ELSE 31

DaysBeforeYear(y) ==
    LET y1 == y - 1 IN y1 * 365 + (y1 \div 4) - (y1 \div 100) + (y1 \div 400)

RECURSIVE DaysBeforeMonth(_, _)
DaysBeforeMonth(y, m) ==
    IF m <= 1 THEN 0 ELSE DaysBeforeMonth(y, m - 1) + DaysInMonth(y, m - 1)

\* date(y, m, d)
MkDate(y, m, d) == DaysBeforeYear(y) + DaysBeforeMonth(y, m) + d

YearOf(o) ==
    LET g == (o * 400) \div 146097
    IN  CHOOSE y \in g .. (g + 2) : DaysBeforeYear(y) < o /\ o <= DaysBeforeYear(y + 1)

\* the (year, month, day) of an ordinal
Fields(o) ==
    LET InMonth(y, m) ==
            [year |-> y, month |-> m,
             day |-> o - DaysBeforeYear(y) - DaysBeforeMonth(y, m)]
        InYear(y) ==
            InMonth(y, CHOOSE m \in 1 .. 12 :
                           /\ DaysBeforeMonth(y, m) < o - DaysBeforeYear(y)
                           /\ o - DaysBeforeYear(y)
                                  <= DaysBeforeMonth(y, m) + DaysInMonth(y, m))
    IN  InYear(YearOf(o))

MonthOf(o) == Fields(o).month

DayOf(o) == Fields(o).day

\* d + relativedelta(months=n): the day is clamped to the target month's length
AddMonths(d, n) ==
    LET In(y, m, day) == MkDate(y, m, Min(day, DaysInMonth(y, m)))
        At(t, day) == In(t \div 12, (t % 12) + 1, day)
        From(f) == At(f.year * 12 + (f.month - 1) + n, f.day)
    IN  From(Fields(d))

\* d.replace(day=k)
ReplaceDay(d, k) ==
    LET In(f) == MkDate(f.year, f.month, k) IN In(Fields(d))

\* the day before the first day of the month after f's month
MonthEnd(f) ==
    IF f.month = 12 THEN MkDate(f.year + 1, 1, 1) - 1
    ELSE MkDate(f.year, f.month + 1, 1) - 1

eomonth(d, months) == MonthEnd(Fields(AddMonths(d, months)))

edate(d, months) ==
    LET Fix(res, f, day) ==
            IF f.day # day
            THEN IF f.month = 12 THEN MkDate(f.year + 1, 1, 1) - 1
                 ELSE IF f.month = 1 THEN MkDate(f.year - 1, 12, 31)
                 ELSE MonthEnd(f)
            ELSE res
        Of(res) == Fix(res, Fields(res), DayOf(d))
    IN  Of(AddMonths(d, months))

-----------------------------------------------------------------------------
(* Fixed-point arithmetic standing for the floating point of the source *)

\* the unit of a factor: 1.0 is Scale
Scale == 10000

\* a / b rounded to the nearest integer, for b > 0
RoundDiv(a, b) == (a + (b \div 2)) \div b

\* (1 + rate/100 * icompound/12) ** ((days/365) * 12/icompound), rate in percent
Growth(rate, icompound, days) ==
    LET X == RoundDiv(Scale * rate * days, 36500)
        Rm == RoundDiv(Scale * rate * icompound, 1200)
    IN  Scale + X + RoundDiv(X * (X - Rm), 2 * Scale)

\* 1 / Growth
PvFactor(rate, icompound, days) == RoundDiv(Scale * Scale, Growth(rate, icompound, days))

\* a * b with b a factor
MulFactor(a, b) == RoundDiv(a * b, Scale)

-----------------------------------------------------------------------------
(* LeaseData accessors.  day_of_month is [kind, val]: kind "int" is a      *)
(* Python int, "str" a string of digits, "Last" the string "Last".         *)

\* PaymentScheduleRow as _create_schedule_row builds it
_create_schedule_row(payment_date, rental_amount, aro_gross, row_index) ==
    [ date |-> payment_date,
      rental_amount |-> rental_amount,
      pv_factor |-> Scale,
      interest |-> 0,
      lease_liability |-> 0,
      pv_of_rent |-> 0,
      rou_asset |-> 0,
      depreciation |-> 0,
      change_in_rou |-> 0,
      security_deposit_pv |-> 0,
      aro_gross |-> aro_gross,
      aro_interest |-> 0,
      aro_provision |-> None,
      principal |-> 0,
      remaining_balance |-> None,
      is_opening |-> (row_index = 0) ]

\* any(row.date == d for row in schedule)
HasRowAt(schedule, d) == \E i \in 1 .. Len(schedule) : schedule[i].date = d

\* index of the first row dated d
FirstRowAt(schedule, d) ==
    CHOOSE i \in 1 .. Len(schedule) :
        schedule[i].date = d /\ \A j \in 1 .. (i - 1) : schedule[j].date # d

\* the rows in the order they were appended
KeepOrder(schedule) == schedule

\* list.sort(key=lambda x: x.date): stable insertion sort
RECURSIVE InsertByDate(_, _)
InsertByDate(sorted, row) ==
    IF sorted = <<>> THEN <<row>>
    ELSE IF sorted[Len(sorted)].date <= row.date THEN Append(sorted, row)
    ELSE Append(InsertByDate(SubSeq(sorted, 1, Len(sorted) - 1), row), sorted[Len(sorted)])

RECURSIVE SortByDate(_)
SortByDate(schedule) ==
    IF schedule = <<>> THEN <<>>
    ELSE InsertByDate(SortByDate(SubSeq(schedule, 1, Len(schedule) - 1)), schedule[Len(schedule)])

\* _get_aro_for_date: the ARO gross amount in force on payment_date
RECURSIVE AroScan(_, _, _)
AroScan(ld, payment_date, aro) ==
    IF aro > 8 \/ aro > Len(ld.aro_dates) THEN
        (IF OrZero(ld.aro) > 0 THEN ld.aro ELSE None)
    ELSE IF Truthy(ld.aro_dates[aro]) /\ ld.aro_dates[aro][1] > payment_date THEN
        IF aro <= Len(ld.aro_revisions) /\ ld.aro_revisions[aro] # None
        THEN ld.aro_revisions[aro]
        ELSE IF aro = 1 THEN Some(OrZero(ld.aro))
        ELSE AroScan(ld, payment_date, aro + 1)
    ELSE AroScan(ld, payment_date, aro + 1)

_get_aro_for_date(ld, payment_date) == AroScan(ld, payment_date, 1)

\* _get_rental_from_schedule: amount of the first entry whose range contains the date
RECURSIVE RentalScan(_, _, _)
RentalScan(rs, payment_date, i) ==
    IF i > Len(rs) THEN 0
    ELSE IF rs[i].start_date <= payment_date /\ payment_date <= rs[i].end_date
         THEN rs[i].amount
         ELSE RentalScan(rs, payment_date, i + 1)

_get_rental_from_schedule(ld, payment_date) == RentalScan(ld.rental_schedule, payment_date, 1)

_get_manual_rental_for_date(ld, payment_date) == _get_rental_from_schedule(ld, payment_date)

PaymentInAdvance(ld) == ld.payment_type # "arrear" /\ ld.payment_type # "arrears"

\* the entries overlapping [period_start, period_end], in table order
OverlappingEntries(rs, period_start, period_end) ==
    SelectSeq(rs, LAMBDA e : e.start_date <= period_end /\ e.end_date >= period_start)

\* the day-weighted share of one overlapping entry
WeightedAmount(ld, e, period_start, period_end, total_period_days) ==
    LET overlap_start == Max(e.start_date, period_start)
        overlap_end == Min(Min(e.end_date, period_end), ld.end_date[1])
        days_in_overlap == IF overlap_end = ld.end_date[1]
                           THEN overlap_end - overlap_start + 1
                           ELSE overlap_end - overlap_start
    IN  IF overlap_end < overlap_start \/ days_in_overlap <= 0 THEN 0
        ELSE RoundDiv(days_in_overlap * e.amount, total_period_days)

RECURSIVE SumWeighted(_, _, _, _, _, _)
SumWeighted(ld, es, i, period_start, period_end, total_period_days) ==
    IF i > Len(es) THEN 0
    ELSE WeightedAmount(ld, es[i], period_start, period_end, total_period_days)
         + SumWeighted(ld, es, i + 1, period_start, period_end, total_period_days)

\* _get_proportionate_rental_for_payment_period
_get_proportionate_rental_for_payment_period(ld, payment_date, frequency_months) ==
    LET adv == PaymentInAdvance(ld)
        lease_end == ld.end_date[1]
        Pick(overlapping, inside, period_start, period_end, total_period_days) ==
            IF ld.rental_schedule = <<>> THEN 0
            ELSE IF total_period_days <= 0 THEN 0
            ELSE IF overlapping = <<>> THEN 0
            ELSE IF period_end # lease_end /\ inside # <<>> THEN inside[1].amount
            ELSE SumWeighted(ld, overlapping, 1, period_start, period_end, total_period_days)
        Overlap(overlapping, period_start, period_end, total_period_days) ==
            Pick(overlapping,
                 SelectSeq(overlapping,
                           LAMBDA e : e.start_date <= period_start /\ e.end_date >= period_end),
                 period_start, period_end, total_period_days)
        Days(period_start, period_end, full_period_days, actual_period_days) ==
            Overlap(OverlappingEntries(ld.rental_schedule, period_start, period_end),
                    period_start, period_end,
                    IF actual_period_days < full_period_days
                    THEN full_period_days ELSE actual_period_days)
        Period(period_start_uncapped, period_start, period_end_uncapped, period_end) ==
            Days(period_start, period_end,
                 IF adv THEN period_end_uncapped - period_start
                 ELSE period_end_uncapped - period_start_uncapped + 1,
                 IF period_end = lease_end THEN period_end - period_start + 1
                 ELSE period_end - period_start)
        Uncapped(period_start_uncapped, period_end_uncapped) ==
            Period(period_start_uncapped,
                   IF adv THEN payment_date
                   ELSE Max(period_start_uncapped, ld.lease_start_date[1]),
                   period_end_uncapped,
                   Min(period_end_uncapped, lease_end))
    IN  Uncapped(IF adv THEN payment_date ELSE edate(payment_date, 0 - frequency_months),
                 IF adv THEN edate(payment_date, frequency_months) ELSE payment_date)

-----------------------------------------------------------------------------
(* _generate_schedule_from_rental_schedule: the rows of a contract that    *)
(* carries a rental schedule                                               *)

\* d.replace(day=min(day_of_month, eomonth(d, 0).day)); a day below 1 raises
\* ValueError and the except branch supplies the fallback
ApplyDay(d, day_of_month, fallback) ==
    IF day_of_month >= 1
    THEN ReplaceDay(d, Min(day_of_month, DayOf(eomonth(d, 0))))
    ELSE fallback

\* the integer the per-entry parsing leaves in day_of_month
ParsedDayOfMonth(ld, start_date) ==
    IF ld.day_of_month.kind = "Last" THEN DayOf(eomonth(start_date, 0))
    ELSE ld.day_of_month.val

\* frequency_months of the entry loop: None or 0 is treated as 1
EntryFrequency(ld) == IF ld.frequency_months = 0 THEN 1 ELSE ld.frequency_months

\* "while payment_date < start_date" of a subsequent entry
RECURSIVE AdvanceToStart(_, _, _, _)
AdvanceToStart(payment_date, start_date, day_of_month, frequency_months) ==
    IF payment_date >= start_date THEN payment_date
    ELSE LET Step(nxt) == AdvanceToStart(ApplyDay(nxt, day_of_month, nxt),
                                         start_date, day_of_month, frequency_months)
         IN  Step(edate(payment_date, frequency_months))

\* every entry starting its own payments on day_of_month of its first month
RestartAtSegment(ld, entry_idx, start_date, day_of_month, frequency_months, last_payment_date) ==
    ApplyDay(start_date, day_of_month, start_date)

\* the first payment date of one rental-schedule entry
EntryFirstPayment(ld, entry_idx, start_date, day_of_month, frequency_months, last_payment_date) ==
    LET fpd == ld.first_payment_date
        Later(from_start, payment_date) ==
            IF payment_date < start_date
            THEN AdvanceToStart(from_start, start_date, day_of_month, frequency_months)
            ELSE payment_date
        Estimated(from_start, next_payment_estimate) ==
            Later(from_start, ApplyDay(next_payment_estimate, day_of_month,
                                       next_payment_estimate))
        First(from_start) ==
            IF entry_idx = 1 THEN
                (IF fpd # None /\ fpd[1] >= start_date THEN fpd[1] ELSE from_start)
            ELSE IF last_payment_date # None THEN
                Estimated(from_start, edate(last_payment_date[1], frequency_months))
            ELSE from_start
    IN  First(ApplyDay(start_date, day_of_month, start_date))

\* the while loop collecting payment_dates of one entry
RECURSIVE PaymentDates(_, _, _, _, _, _, _, _)
PaymentDates(current_payment_date, count, payment_dates, start_date, target_end_date, rental_count, day_of_month, frequency_months) ==
    LET Loop(stepped, next_payment_estimate) ==
            IF current_payment_date > target_end_date THEN payment_dates
            ELSE IF rental_count > 0 /\ count >= rental_count THEN payment_dates
            ELSE IF current_payment_date < start_date THEN
                PaymentDates(stepped, count, payment_dates, start_date, target_end_date,
                             rental_count, day_of_month, frequency_months)
            ELSE
                PaymentDates(IF next_payment_estimate <= target_end_date
                                /\ (rental_count = 0 \/ count + 1 < rental_count)
                             THEN stepped ELSE current_payment_date,
                             count + 1, Append(payment_dates, current_payment_date),
                             start_date, target_end_date,
                             rental_count, day_of_month, frequency_months)
        Moved(moved) == Loop(ApplyDay(moved, day_of_month, eomonth(moved, 0)),
                             ApplyDay(moved, day_of_month, moved))
    IN  Moved(edate(current_payment_date, frequency_months))

\* the rental of a payment date: proportionate, or the simple lookup when that is 0
PaymentRental(ld, payment_date, frequency_months) ==
    LET OrLookup(payment_rental_amount) ==
            IF payment_rental_amount = 0 THEN _get_rental_from_schedule(ld, payment_date)
            ELSE payment_rental_amount
    IN  OrLookup(_get_proportionate_rental_for_payment_period(ld, payment_date,
                                                              frequency_months))

\* update the row already dated payment_date, or append a new one
PutPaymentRow(ld, schedule, payment_date, payment_rental_amount) ==
    IF HasRowAt(schedule, payment_date)
    THEN [schedule EXCEPT ![FirstRowAt(schedule, payment_date)].rental_amount =
                              payment_rental_amount]
    ELSE Append(schedule,
                _create_schedule_row(payment_date, payment_rental_amount,
                                     _get_aro_for_date(ld, payment_date), Len(schedule)))

\* one payment: its rental amount put on its row
PutPayment(ld, schedule, payment_date, frequency_months) ==
    PutPaymentRow(ld, schedule, payment_date,
                  PaymentRental(ld, payment_date, frequency_months))

RECURSIVE AddPaymentRows(_, _, _, _, _)
AddPaymentRows(ld, schedule, payment_dates, i, frequency_months) ==
    IF i > Len(payment_dates) THEN schedule
    ELSE AddPaymentRows(ld, PutPayment(ld, schedule, payment_dates[i], frequency_months),
                        payment_dates, i + 1, frequency_months)

MaxOfSeq(seq) == CHOOSE m \in {seq[i] : i \in 1 .. Len(seq)} :
                     \A i \in 1 .. Len(seq) : seq[i] <= m

\* the loop over the rental-schedule entries; yields the rows and last_payment_date
RECURSIVE ProcessEntries(_, _, _, _)
ProcessEntries(ld, entry_idx, schedule, last_payment_date) ==
    IF entry_idx > Len(ld.rental_schedule)
    THEN [schedule |-> schedule, last_payment_date |-> last_payment_date]
    ELSE LET e == ld.rental_schedule[entry_idx]
             frequency_months == EntryFrequency(ld)
             Added(payment_dates) ==
                 ProcessEntries(ld, entry_idx + 1,
                                AddPaymentRows(ld, schedule, payment_dates, 1, frequency_months),
                                IF payment_dates # <<>> THEN Some(MaxOfSeq(payment_dates))
                                ELSE last_payment_date)
             OnDay(day_of_month) ==
                 Added(PaymentDates(EntryFirstPayment(ld, entry_idx, e.start_date, day_of_month,
                                                      frequency_months, last_payment_date),
                                    0, <<>>, e.start_date, ld.end_date[1],
                                    e.rental_count, day_of_month, frequency_months))
         IN  IF e.start_date >= e.end_date \/ e.rental_count <= 0
             THEN ProcessEntries(ld, entry_idx + 1, schedule, last_payment_date)
             ELSE OnDay(ParsedDayOfMonth(ld, e.start_date))

\* day_of_month applied after the entries: only a Python int is applied to
\* the date, "Last" moves to the month end, a digit string leaves it alone
ApplyRawDay(ld, d) ==
    LET To(month_end) ==
            IF ld.day_of_month.kind = "int" THEN ApplyDay(d, ld.day_of_month.val, month_end)
            ELSE IF ld.day_of_month.kind = "Last" THEN month_end
            ELSE d
    IN  To(eomonth(d, 0))

\* the estimate of the next payment applies an int day_of_month only
EstimateRawDay(ld, d) ==
    IF ld.day_of_month.kind = "int" THEN ApplyDay(d, ld.day_of_month.val, d) ELSE d

\* payments continued after the last entry, until the lease end date
RECURSIVE ContinuePayments(_, _, _, _)
ContinuePayments(ld, schedule, current_payment_date, frequency_months) ==
    IF current_payment_date > ld.end_date[1] THEN schedule
    ELSE LET Then(put, next_payment_estimate) ==
                 IF next_payment_estimate > ld.end_date[1] THEN put
                 ELSE ContinuePayments(ld, put, next_payment_estimate, frequency_months)
         IN  Then(PutPayment(ld, schedule, current_payment_date, frequency_months),
                  EstimateRawDay(ld, edate(current_payment_date, frequency_months)))

\* a row without rental: the closing row and the accrual rows
AccrualRow(ld, schedule, row_date) ==
    _create_schedule_row(row_date, 0, _get_aro_for_date(ld, row_date), Len(schedule))

\* a closing row at the lease end date when no row is dated there
EnsureEndRow(ld, schedule) ==
    IF HasRowAt(schedule, ld.end_date[1]) THEN schedule
    ELSE Append(schedule, AccrualRow(ld, schedule, ld.end_date[1]))

\* the month-end accrual rows missing from the schedule
RECURSIVE MonthEndRows(_, _, _, _)
MonthEndRows(ld, schedule, current_date, month_end_schedule) ==
    IF current_date > ld.end_date[1] THEN month_end_schedule
    ELSE LET NextMonth(f) == IF f.month = 12 THEN MkDate(f.year + 1, 1, 1)
                             ELSE MkDate(f.year, f.month + 1, 1)
             Row(month_end) ==
                 MonthEndRows(ld, schedule, NextMonth(Fields(current_date)),
                     IF month_end # current_date /\ month_end <= ld.end_date[1]
                        /\ ~HasRowAt(schedule, month_end)
                     THEN Append(month_end_schedule, AccrualRow(ld, schedule, month_end))
                     ELSE month_end_schedule)
         IN  Row(eomonth(current_date, 0))

\* the accrual row on day_of_month of the first payment's month
IntermediateRow(ld, schedule) ==
    LET fpd == ld.first_payment_date
        day_of_month_val == IF ld.day_of_month.kind = "Last" THEN 0 ELSE ld.day_of_month.val
        Row(intermediate_date, month_end) ==
            IF DayOf(fpd[1]) # day_of_month_val
               /\ intermediate_date > fpd[1] /\ intermediate_date < month_end
               /\ ~HasRowAt(schedule, intermediate_date)
            THEN Append(schedule, AccrualRow(ld, schedule, intermediate_date))
            ELSE schedule
        InMonth(month_end) ==
            Row(ReplaceDay(fpd[1], Min(day_of_month_val, DayOf(month_end))), month_end)
    IN  IF fpd # None /\ day_of_month_val >= 1 THEN InMonth(eomonth(fpd[1], 0))
        ELSE schedule

\* the rows of rental-schedule mode, before the amortization pass
RentalScheduleRows(ld) ==
    LET frequency_months == IF ld.frequency_months = 0 THEN 1 ELSE ld.frequency_months
        WithMonthEnds(sorted) ==
            SortByDate(IntermediateRow(ld,
                sorted \o MonthEndRows(ld, sorted, ld.lease_start_date[1], <<>>)))
        Continued(entries) ==
            WithMonthEnds(SortByDate(EnsureEndRow(ld,
                IF entries.last_payment_date # None
                THEN ContinuePayments(ld, entries.schedule,
                                      ApplyRawDay(ld, edate(entries.last_payment_date[1],
                                                            frequency_months)),
                                      frequency_months)
                ELSE entries.schedule)))
    IN  Continued(ProcessEntries(ld, 1,
                                 <<AccrualRow(ld, <<>>, ld.lease_start_date[1])>>, None))

-----------------------------------------------------------------------------
(* generate_complete_schedule without a rental schedule: the day-by-day    *)
(* loop.  An outcome is [status, err, schedule]; status "raised" carries   *)
(* the exception in err and no schedule.                                   *)

Returned(schedule) == [status |-> "ok", err |-> "", schedule |-> schedule]
Raised(err) == [status |-> "raised", err |-> err, schedule |-> <<>>]

firstpaymentDate(ld) ==
    IF ld.first_payment_date # None THEN ld.first_payment_date[1] ELSE ld.lease_start_date[1]

\* dayofma before the loop: a digit string gives its value, "Last" the length
\* of the start month, anything else (a Python int too) gives 1
InitialDayOfMa(ld) ==
    IF ld.day_of_month.kind = "str" THEN ld.day_of_month.val
    ELSE IF ld.day_of_month.kind = "Last" THEN DayOf(eomonth(ld.lease_start_date[1], 0))
    ELSE 1

MonthIndex(d) == YearOf(d) * 12 + MonthOf(d)

\* schedule[-1].rental_amount += purchase_option_price
AddToLastRental(schedule, amount) ==
    IF schedule = <<>> THEN schedule
    ELSE [schedule EXCEPT ![Len(schedule)].rental_amount = @ + amount]

\* the loop state: the rows so far, dayofma, lastmonthpay, and whether the
\* loop still runs ("run"), has left by break ("ok") or has raised
LoopState(schedule, dayofma, lastmonthpay, mode, err) ==
    [schedule |-> schedule, dayofma |-> dayofma, lastmonthpay |-> lastmonthpay,
     mode |-> mode, err |-> err]

\* the body of "for i in range(1, 50001)" for one i; app_rent is the rental
\* found for the first payment date and app_rent_date that date; rent_no has
\* no value, so incrementing it raises UnboundLocalError; a remainder by a
\* negative monthof is zero exactly when the remainder by its magnitude is
DateStep(ld, st, i, app_rent) ==
    LET starto == ld.lease_start_date[1]
        enddate == ld.end_date[1]
        fpd == firstpaymentDate(ld)
        monthof == ld.frequency_months
        dateo == starto + i
        purchase_price == OrZero(ld.purchase_option_price)
        Row(schedule, rental_amount) ==
            Append(schedule, _create_schedule_row(dateo, rental_amount,
                                                  _get_aro_for_date(ld, dateo), Len(schedule)))
        Leave(s2, s3, x2, pay, in_cycle, dayofma, dayofma_out, lmp1) ==
            IF dateo < fpd /\ ~x2 THEN LoopState(s2, dayofma, lmp1, "run", "")
            ELSE IF monthof = 0
            THEN LoopState(<<>>, dayofma, lmp1, "raised", "ZeroDivisionError")
            ELSE IF in_cycle /\ x2 THEN LoopState(s2, dayofma, lmp1, "run", "")
            ELSE IF pay /\ ~(fpd >= dateo) THEN
                LoopState(<<>>, dayofma, lmp1, "raised", "UnboundLocalError: rent_no")
            ELSE IF dateo = enddate THEN
                LoopState(IF ~(x2 \/ pay) THEN Row(s3, purchase_price)
                          ELSE AddToLastRental(s3, purchase_price),
                          dayofma_out, IF pay THEN 0 ELSE lmp1, "ok", "")
            ELSE IF dateo >= enddate
            THEN LoopState(s3, dayofma_out, IF pay THEN 0 ELSE lmp1, "ok", "")
            ELSE LoopState(s3, dayofma_out, IF pay THEN 0 ELSE lmp1, "run", "")
        Paid(f, s2, x2, in_cycle, feb, dayofma, dayofma1, lmp1, pay) ==
            Leave(s2,
                  IF pay THEN Row(s2, IF lmp1 # f.month + f.year * 12 THEN app_rent ELSE 0)
                  ELSE s2,
                  x2, pay, in_cycle, dayofma, IF feb THEN dayofma1 ELSE dayofma, lmp1)
        February(f, s2, x2, in_cycle, feb, dayofma, dayofma1, lmp1) ==
            Paid(f, s2, x2, in_cycle, feb, dayofma, dayofma1, lmp1,
                 in_cycle /\ f.day = (IF feb THEN 28 ELSE dayofma))
        Cycle(f, s2, x2, in_cycle, dayofma, dayofma1, lmp1) ==
            February(f, s2, x2, in_cycle, in_cycle /\ f.month = 2 /\ dayofma1 > 28,
                     dayofma, dayofma1, lmp1)
        AtMonthEnd(f, s1, on_first, month_end, dayofma, lmp1) ==
            Cycle(f, IF month_end THEN Row(s1, 0) ELSE s1, on_first \/ month_end,
                  monthof # 0
                  /\ ((f.year * 12 + f.month) - MonthIndex(fpd)) % Abs(monthof) = 0,
                  dayofma, InitialDayOfMa(ld), lmp1)
        OnFirst(f, on_first, dayofma) ==
            AtMonthEnd(f, IF on_first THEN Row(st.schedule, app_rent) ELSE st.schedule,
                       on_first, ~on_first /\ f.month # MonthOf(dateo + 1), dayofma,
                       IF on_first THEN f.month + f.year * 12 ELSE st.lastmonthpay)
        Day(f) ==
            OnFirst(f, dateo = fpd /\ starto # fpd,
                    IF ld.day_of_month.kind = "Last" THEN DayOf(eomonth(dateo, 0))
                    ELSE st.dayofma)
    IN  Day(Fields(dateo))

\* the iterations lo .. hi in order, none after the loop has been left
RECURSIVE DateLoop(_, _, _, _, _)
DateLoop(ld, st, lo, hi, app_rent) ==
    IF st.mode # "run" THEN st
    ELSE IF lo = hi THEN DateStep(ld, st, lo, app_rent)
    ELSE LET mid == (lo + hi) \div 2
         IN  DateLoop(ld, DateLoop(ld, st, lo, mid, app_rent), mid + 1, hi, app_rent)

\* the rows of escalation mode for enddate # starto, before the amortization pass
EscalationRows(ld) ==
    LET starto == ld.lease_start_date[1]
        fpd == firstpaymentDate(ld)
        Left(left) == IF left.mode = "raised" THEN Raised(left.err)
                      ELSE Returned(left.schedule)
        From(app_rent) ==
            Left(DateLoop(ld,
                          LoopState(<<_create_schedule_row(
                                          starto, IF starto = fpd THEN app_rent ELSE 0,
                                          _get_aro_for_date(ld, starto), 0)>>,
                                    InitialDayOfMa(ld),
                                    IF starto = fpd THEN MonthIndex(starto) ELSE 0,
                                    "run", ""),
                          1, 50000, app_rent))
    IN  From(_get_rental_from_schedule(ld, fpd))

-----------------------------------------------------------------------------
(* findrent: the rental of payment number app under the escalation formula. *)
(* The result is [status, err, app_rent, app_rent_date, iterations], where  *)
(* iterations counts the passes of "while i < 201".                         *)

\* base_rental * (1 + pre / 100) ** n, pre in percent
RECURSIVE Escalated(_, _, _)
Escalated(base_rental, pre, n) ==
    IF n <= 0 THEN base_rental
    ELSE RoundDiv(Escalated(base_rental, pre, n - 1) * (100 + pre), 100)

\* Day_of_Month of findrent: "Last" is taken from the start month, a digit
\* string gives its value, anything else 1
FindRentDay(ld) ==
    IF ld.day_of_month.kind = "Last"
    THEN (IF MonthOf(ld.lease_start_date[1]) \in {1, 3, 5, 7, 8, 10, 12} THEN 31
          ELSE IF MonthOf(ld.lease_start_date[1]) = 2 THEN 28 ELSE 30)
    ELSE IF ld.day_of_month.kind = "str" THEN ld.day_of_month.val
    ELSE 1

\* "for t in range(1, 25)": startd found from begind in steps of Frequency_months
RECURSIVE FindStartd(_, _, _, _)
FindStartd(begind, Escalation_Start, Frequency_months, t) ==
    IF t > 24 THEN begind
    ELSE IF Escalation_Start < AddMonths(begind, Frequency_months * t)
    THEN AddMonths(begind, Frequency_months * (t - 1))
    ELSE IF Escalation_Start = AddMonths(begind, Frequency_months * t)
    THEN AddMonths(begind, Frequency_months * t)
    ELSE FindStartd(begind, Escalation_Start, Frequency_months, t + 1)

Found(app_rent, app_rent_date, iterations) ==
    [status |-> "ok", err |-> "", app_rent |-> app_rent,
     app_rent_date |-> app_rent_date, iterations |-> iterations]

\* the rent of the offset branch: the two escalation steps weighted by offse
OffsetRent(base_rental, pre, n, offse, RPeriod) ==
    (Escalated(base_rental, pre, n) * offse) \div RPeriod
        + (Escalated(base_rental, pre, n - 1) * (RPeriod - offse)) \div RPeriod

\* one pass of the body of "while i < 201"; c holds what the loop does not
\* change; done tells whether the pass returned or raised, last is what the
\* pass leaves in app_rent and app_rent_date
FindRentPass(c, app, i, k, offse, iterations) ==
    LET Left(last) == [done |-> TRUE, i |-> i, k |-> k, offse |-> offse, last |-> last]
        Offset(app_rent_date, RPeriod, offse2) ==
            IF RPeriod = 0
            THEN Left([status |-> "raised", err |-> "ZeroDivisionError", app_rent |-> 0,
                       app_rent_date |-> app_rent_date, iterations |-> iterations + 1])
            ELSE IF app = i + 1
            THEN Left(Found(OffsetRent(c.base_rental, c.pre, i - k, offse2, RPeriod),
                            app_rent_date, iterations + 1))
            ELSE IF app_rent_date >= c.end_date
            THEN Left(Found(OffsetRent(c.base_rental, c.pre, i - k, offse2, RPeriod),
                            c.end_date, iterations + 1))
            ELSE [done |-> FALSE, i |-> i + 1, k |-> k + 1, offse |-> offse2,
                  last |-> Found(OffsetRent(c.base_rental, c.pre, i - k, offse2, RPeriod),
                                 app_rent_date, iterations + 1)]
        Period(RPeriod) ==
            Offset(edate(c.begdate1, c.fre * (i - k)), RPeriod,
                   IF offse < 0 THEN RPeriod + offse ELSE offse)
        Pass(app_rent, app_rent_date) ==
            IF app = i THEN Left(Found(app_rent, app_rent_date, iterations + 1))
            ELSE IF app_rent_date >= c.end_date
            THEN Left(Found(app_rent, c.end_date, iterations + 1))
            ELSE IF offse # 0
            THEN Period(edate(c.begdate, c.fre * (i - k) + c.Frequency_months)
                            - edate(c.begdate, c.fre * (i - k)))
            ELSE [done |-> FALSE, i |-> i + 1, k |-> k, offse |-> offse,
                  last |-> Found(app_rent, app_rent_date, iterations + 1)]
    IN  Pass(Escalated(c.base_rental, c.pre, i - 1 - k),
             edate(c.begdate1, c.fre * (i - k)) - 1)

\* the while loop of findrent from i on
RECURSIVE FindRentLoop(_, _, _, _, _, _, _)
FindRentLoop(c, app, i, k, offse, iterations, last) ==
    IF ~(i < 201) THEN [last EXCEPT !.iterations = iterations]
    ELSE LET Go(pass) ==
                 IF pass.done THEN pass.last
                 ELSE FindRentLoop(c, app, pass.i, pass.k, pass.offse, iterations + 1,
                                   pass.last)
         IN  Go(FindRentPass(c, app, i, k, offse, iterations))

\* findrent up to its while loop: done with the result in last when it returns
\* or raises before the loop, otherwise the values the loop starts from
FindRentEntry(ld, app) ==
    LET fre == ld.esc_freq_months
        pre == OrZero(ld.escalation_percent)
        Escalation_Start == ld.escalation_start
        u == IF app % 2 = 1 THEN app ELSE app - 1
        Left(last) == [done |-> TRUE, c |-> <<>>, i |-> 0, k |-> 0, offse |-> 0,
                       last |-> last]
        Loop(begdate, Day_of_Month, startd) ==
            IF Day_of_Month > DaysInMonth(YearOf(begdate), MonthOf(begdate))
            THEN Left([status |-> "raised", err |-> "ValueError: day is out of range for month",
                       app_rent |-> 0, app_rent_date |-> begdate, iterations |-> 0])
            ELSE [done |-> FALSE,
                  c |-> [begdate |-> begdate,
                         begdate1 |-> ReplaceDay(begdate, Day_of_Month),
                         fre |-> fre, pre |-> pre,
                         Frequency_months |-> ld.frequency_months,
                         base_rental |-> _get_rental_from_schedule(ld, Escalation_Start[1]),
                         end_date |-> ld.end_date[1]],
                  i |-> u,
                  k |-> IF startd - Escalation_Start[1] # 0 THEN u \div 2 ELSE 0,
                  offse |-> startd - Escalation_Start[1],
                  last |-> [status |-> "raised", err |-> "UnboundLocalError: app_rent",
                            app_rent |-> 0, app_rent_date |-> begdate, iterations |-> 0]]
        From(begdate) == Loop(begdate, FindRentDay(ld), ReplaceDay(begdate, ld.accrual_day))
    IN  IF fre = 0 \/ pre = 0 \/ ld.frequency_months = 0 \/ Escalation_Start = None
        THEN Left(Found(_get_rental_from_schedule(
                            ld, IF Escalation_Start # None THEN Escalation_Start[1]
                                ELSE ld.lease_start_date[1]),
                        ld.end_date[1], 0))
        ELSE From(FindStartd(MkDate(YearOf(Escalation_Start[1]) - 1,
                                    MonthOf(ld.lease_start_date[1]), ld.accrual_day),
                             Escalation_Start[1], ld.frequency_months, 1))

findrent(ld, app) ==
    LET Go(entry) ==
            IF entry.done THEN entry.last
            ELSE FindRentLoop(entry.c, app, entry.i, entry.k, entry.offse, 0, entry.last)
    IN  Go(FindRentEntry(ld, app))

-----------------------------------------------------------------------------
(* _apply_basic_calculations and its helpers *)

\* secdeprate in percent: a raw value above 1 is a percentage, otherwise a fraction
SecDepRate(ld) ==
    LET raw_secdeprate == OrZero(ld.security_discount)
    IN  IF raw_secdeprate > 1 THEN raw_secdeprate ELSE raw_secdeprate * 100

\* an icompound that never looks at compound_months
DerivedCompound(ld) ==
    LET freq == IF ld.frequency_months = 0 THEN 1 ELSE ld.frequency_months
    IN  IF freq = 3 THEN 3 ELSE IF freq = 6 THEN 6 ELSE IF freq >= 12 THEN 12 ELSE 1

\* icompound: compound_months when it equals the frequency, else derived from it
ICompound(ld) ==
    LET freq == IF ld.frequency_months = 0 THEN 1 ELSE ld.frequency_months
        derived == IF freq = 3 THEN 3 ELSE IF freq = 6 THEN 6 ELSE IF freq >= 12 THEN 12 ELSE 1
    IN  IF Truthy(ld.compound_months) /\ ld.compound_months[1] > 0
           /\ ld.compound_months[1] = freq
        THEN ld.compound_months[1]
        ELSE derived

\* get_rate of the RFR table: the first entry of the (date-descending) table
\* dated on or before rate_date, else the most recent entry; rate in percent
get_rate(tables, rate_date, table) ==
    IF table = 0 \/ table \notin DOMAIN tables THEN 0
    ELSE LET t == tables[table]
             hits == {k \in 1 .. Len(t) : t[k].date <= rate_date}
         IN  IF hits # {} THEN t[CHOOSE k \in hits : \A j \in hits : k <= j].rate
             ELSE IF t # <<>> THEN t[1].rate
             ELSE 0

get_aro_rate(tables, rate_date, table) == get_rate(tables, rate_date, table)

_calculate_aro_provision_vba(tables, aro_gross, current_date, end_date, table) ==
    LET aro_rate == get_aro_rate(tables, current_date, table)
        days_remaining == end_date - current_date
    IN  IF aro_gross <= 0 \/ table <= 0 THEN None
        ELSE IF aro_rate <= 0 THEN Some(aro_gross)
        ELSE IF days_remaining <= 0 THEN Some(aro_gross)
        ELSE Some(MulFactor(aro_gross, PvFactor(aro_rate, 1, days_remaining)))

RECURSIVE InitialLiabilitySum(_, _, _)
InitialLiabilitySum(ld, schedule, k) ==
    IF k > Len(schedule) THEN 0
    ELSE LET row == schedule[k]
             days_from_start == row.date - schedule[1].date
         IN  (IF row.rental_amount > 0 /\ days_from_start > 0
              THEN MulFactor(row.rental_amount,
                             PvFactor(ld.borrowing_rate[1], ICompound(ld), days_from_start))
              ELSE 0)
             + InitialLiabilitySum(ld, schedule, k + 1)

\* the rows after the opening row with a positive rental, discounted
_calculate_initial_liability(ld, schedule) == InitialLiabilitySum(ld, schedule, 2)

\* an opening ROU that ignores the costs and the sublease ROU
LiabilityOnly(ld, initial_liability, ide) == initial_liability

_calculate_initial_rou(ld, initial_liability, ide) ==
    IF ld.sublease = "Yes"
    THEN (IF Truthy(ld.sublease_rou) THEN ld.sublease_rou[1] ELSE initial_liability)
    ELSE initial_liability + ide

\* the initial call only: prev_security_pv is None
_calculate_security_pv(ld, current_date, end_date, secdeprate) ==
    IF ~Truthy(ld.security_deposit) \/ secdeprate <= 0 THEN 0
    ELSE IF end_date - current_date <= 0 THEN 0
    ELSE MulFactor(ld.security_deposit[1], PvFactor(secdeprate, 1, end_date - current_date))

_calculate_end_of_life_vba(ld, enddate) ==
    IF ld.finance_lease_usgaap = "Yes" \/ ld.bargain_purchase = "Yes" \/ ld.title_transfer = "Yes"
    THEN (IF ld.useful_life # None THEN ld.useful_life[1] ELSE enddate)
    ELSE enddate

RECURSIVE FutureInterestSum(_, _)
FutureInterestSum(schedule, k) ==
    IF k > Len(schedule) THEN 0
    ELSE Abs(schedule[k].interest) + FutureInterestSum(schedule, k + 1)

\* the denominator of the US-GAAP operating formula, times days_in_prev_month
RemainingPeriodScaled(prev_row, endoflife) ==
    LET end_life_plus_one == endoflife + 1
        months_diff == (YearOf(end_life_plus_one) - YearOf(prev_row.date)) * 12
                       + (MonthOf(end_life_plus_one) - MonthOf(prev_row.date))
        days_in_prev_month == DayOf(eomonth(prev_row.date, 0))
    IN  months_diff * days_in_prev_month + (DayOf(end_life_plus_one) - DayOf(prev_row.date))

IsOperatingUSGAAP(ld) == ld.gaap_standard = "US-GAAP" /\ ld.finance_lease_usgaap # "Yes"

\* _calculate_depreciation_vba raises ZeroDivisionError on a zero denominator
DepreciationDividesByZero(ld, prev_row, endoflife) ==
    IsOperatingUSGAAP(ld) /\ RemainingPeriodScaled(prev_row, endoflife) = 0

\* floor of a / b for b # 0
FloorDiv(a, b) == IF b > 0 THEN a \div b ELSE (0 - a) \div (0 - b)

_calculate_depreciation_vba(ld, schedule, curr_idx, endoflife) ==
    LET prev_row == schedule[curr_idx - 1]
        curr_row == schedule[curr_idx]
    IN  IF IsOperatingUSGAAP(ld) THEN
            LET future_interest_sum == FutureInterestSum(schedule, curr_idx)
                days_in_period == curr_row.date - (prev_row.date - 1)
                days_in_curr_month == DayOf(eomonth(curr_row.date, 0))
                days_in_prev_month == DayOf(eomonth(prev_row.date, 0))
                depreciation ==
                    FloorDiv((prev_row.rou_asset + future_interest_sum) * days_in_period
                                 * days_in_prev_month,
                             days_in_curr_month * RemainingPeriodScaled(prev_row, endoflife))
                    - curr_row.interest
            IN  Max(0, Max(0, Min(depreciation, prev_row.rou_asset)))
        ELSE
            LET total_days == endoflife - prev_row.date
                days_diff == curr_row.date - prev_row.date
            IN  IF total_days <= 0 THEN 0
                ELSE Max(0, Min((prev_row.rou_asset * days_diff) \div total_days,
                                prev_row.rou_asset))

\* interest accrued on the previous liability over the days between two rows
AccruedInterest(ld, prev_row, curr_row) ==
    IF curr_row.date - prev_row.date > 0
    THEN MulFactor(prev_row.lease_liability,
                   Growth(ld.borrowing_rate[1], ICompound(ld), curr_row.date - prev_row.date)
                       - Scale)
    ELSE curr_row.interest

\* one row of the first pass (rows 10+ of the worksheet)
FirstPassRow(ld, tables, schedule, k, endoflife) ==
    LET prev_row == schedule[k - 1]
        curr_row == schedule[k]
        secdeprate == SecDepRate(ld)
        days_from_start == curr_row.date - schedule[1].date
        Rolled(pv_factor, interest) ==
            [curr_row EXCEPT
                !.pv_factor = pv_factor,
                !.interest = interest,
                !.lease_liability = prev_row.lease_liability - curr_row.rental_amount
                                        + interest,
                !.pv_of_rent = MulFactor(curr_row.rental_amount, pv_factor),
                !.principal = curr_row.rental_amount - interest,
                !.remaining_balance =
                    Some(prev_row.lease_liability - curr_row.rental_amount + interest)]
        Provided(row, aro_gross, aro_provision) ==
            [row EXCEPT
                !.aro_gross = aro_gross,
                !.aro_provision = aro_provision,
                !.aro_interest = OrZero(aro_provision) - OrZero(prev_row.aro_provision),
                !.change_in_rou =
                    OrZero(aro_provision)
                        - (OrZero(aro_provision) - OrZero(prev_row.aro_provision))
                        - OrZero(prev_row.aro_provision)]
        Provisioned(row, aro_gross) ==
            Provided(row, aro_gross,
                     _calculate_aro_provision_vba(tables, OrZero(aro_gross), curr_row.date,
                                                  schedule[Len(schedule)].date, ld.aro_table))
        Carried(current_aro_gross) ==
            IF current_aro_gross # 0 THEN Some(current_aro_gross) ELSE curr_row.aro_gross
        Depreciated(mid, depreciation) ==
            [mid EXCEPT ![k] =
                [@ EXCEPT
                    !.depreciation = depreciation,
                    !.rou_asset = prev_row.rou_asset - depreciation + mid[k].change_in_rou,
                    !.security_deposit_pv =
                        IF secdeprate > 0 /\ OrZero(ld.security_deposit) > 0
                        THEN (prev_row.security_deposit_pv
                                  * PvFactor(secdeprate, 1, prev_row.date - schedule[1].date))
                             \div PvFactor(secdeprate, 1, days_from_start)
                        ELSE 0]]
        Filled(mid) == Depreciated(mid, _calculate_depreciation_vba(ld, mid, k, endoflife))
    IN  Filled([schedule EXCEPT ![k] =
                   Provisioned(Rolled(PvFactor(ld.borrowing_rate[1], ICompound(ld),
                                               days_from_start),
                                      AccruedInterest(ld, prev_row, curr_row)),
                               Carried(OrZero(_get_aro_for_date(ld, curr_row.date))))])

\* one row of the recalculation after the initial liability is known
SecondPassRow(ld, schedule, k, endoflife) ==
    LET prev_row == schedule[k - 1]
        curr_row == schedule[k]
        Rolled(interest) ==
            [curr_row EXCEPT
                !.interest = interest,
                !.lease_liability = prev_row.lease_liability - curr_row.rental_amount
                                        + interest]
        Depreciated(mid, depreciation) ==
            [mid EXCEPT ![k] =
                [@ EXCEPT !.depreciation = depreciation,
                          !.rou_asset = prev_row.rou_asset - depreciation
                                            + curr_row.change_in_rou]]
        Filled(mid) == Depreciated(mid, _calculate_depreciation_vba(ld, mid, k, endoflife))
    IN  Filled([schedule EXCEPT ![k] = Rolled(AccruedInterest(ld, prev_row, curr_row))])

\* "for i in range(1, endrow)" of either pass; a raise stops the pass
RECURSIVE RunPass(_, _, _, _, _, _)
RunPass(ld, tables, st, k, endoflife, second) ==
    IF st.status # "ok" \/ k > Len(st.schedule) THEN st
    ELSE IF DepreciationDividesByZero(ld, st.schedule[k - 1], endoflife)
    THEN Raised("ZeroDivisionError")
    ELSE RunPass(ld, tables,
                 Returned(IF second THEN SecondPassRow(ld, st.schedule, k, endoflife)
                          ELSE FirstPassRow(ld, tables, st.schedule, k, endoflife)),
                 k + 1, endoflife, second)

\* sum(row.pv_of_rent for row in schedule if row.date <= end_date)
RECURSIVE TotalPvRent(_, _, _)
TotalPvRent(ld, schedule, k) ==
    IF k > Len(schedule) THEN 0
    ELSE (IF schedule[k].date <= ld.end_date[1] THEN schedule[k].pv_of_rent ELSE 0)
         + TotalPvRent(ld, schedule, k + 1)

\* transition option 2B: ROU = liability + prepaid on the day before transition
ApplyTransition2B(ld, schedule) ==
    IF ld.transition_option = Some("2B") /\ ld.transition_date # None
       /\ HasRowAt(schedule, ld.transition_date[1] - 1)
    THEN LET k == FirstRowAt(schedule, ld.transition_date[1] - 1)
         IN  [schedule EXCEPT ![k].rou_asset =
                                   schedule[k].lease_liability + OrZero(ld.prepaid_accrual)]
    ELSE schedule

\* the rows recalculated from the opening liability total_pv_rent; a contract
\* with fv_of_rou keeps the first pass
Recalculate(ld, tables, pass1, total_pv_rent, ide, endoflife) ==
    IF pass1.status # "ok" THEN pass1
    ELSE IF Truthy(ld.fv_of_rou) THEN pass1
    ELSE RunPass(ld, tables,
                 Returned([pass1.schedule EXCEPT
                     ![1].lease_liability = total_pv_rent,
                     ![1].rou_asset = _calculate_initial_rou(ld, total_pv_rent, ide)]),
                 2, endoflife, TRUE)

_apply_basic_calculations(ld, tables, schedule) ==
    LET ide == OrZero(ld.initial_direct_expenditure) - OrZero(ld.lease_incentive)
        last_date == schedule[Len(schedule)].date
        endoflife == _calculate_end_of_life_vba(ld, last_date)
        Opened(initial_liability) ==
            Returned([schedule EXCEPT ![1] =
                [schedule[1] EXCEPT
                    !.pv_factor = Scale,
                    !.aro_gross = IF Truthy(schedule[1].aro_gross)
                                  THEN schedule[1].aro_gross
                                  ELSE Some(OrZero(ld.aro)),
                    !.interest = 0,
                    !.depreciation = 0,
                    !.aro_interest = 0,
                    !.lease_liability = initial_liability,
                    !.rou_asset = _calculate_initial_rou(ld, initial_liability, ide),
                    !.security_deposit_pv =
                        _calculate_security_pv(ld, schedule[1].date, last_date,
                                               SecDepRate(ld)),
                    !.pv_of_rent = MulFactor(schedule[1].rental_amount, Scale)]])
        Totalled(pass1) ==
            Recalculate(ld, tables, pass1, TotalPvRent(ld, pass1.schedule, 1), ide, endoflife)
        Transition(pass2) ==
            IF pass2.status # "ok" THEN pass2
            ELSE Returned(ApplyTransition2B(ld, pass2.schedule))
    IN  IF schedule = <<>> THEN Returned(schedule)
        ELSE IF ld.borrowing_rate = None
        THEN Raised("ValueError: borrowing_rate is required but was not provided in the lease data")
        ELSE Transition(Totalled(RunPass(ld, tables,
                                         Opened(_calculate_initial_liability(ld, schedule)),
                                         2, endoflife, FALSE)))

-----------------------------------------------------------------------------
(* The post-passes: each walks the rows once with a pointer i into its     *)
(* date list                                                               *)

\* lists[i - 1] of the source, for i within the list and a date present
DateAt(dates, i) == IF i <= Len(dates) /\ dates[i] # None THEN dates[i] ELSE None

RECURSIVE SecurityWalk(_, _, _, _)
SecurityWalk(ld, schedule, k, i) ==
    IF k > Len(schedule) THEN schedule
    ELSE IF DateAt(ld.security_dates, i) # None
            /\ schedule[k].date = ld.security_dates[i][1] THEN
        LET increase_amount == IF i <= Len(ld.increase_security)
                               THEN OrZero(ld.increase_security[i]) ELSE 0
            days_remaining == schedule[Len(schedule)].date - schedule[k].date
            secdeprate == SecDepRate(ld)
            added == IF increase_amount > 0 /\ days_remaining > 0 /\ secdeprate > 0
                     THEN [schedule EXCEPT ![k].security_deposit_pv =
                               @ + MulFactor(increase_amount,
                                             PvFactor(secdeprate, 1, days_remaining))]
                     ELSE schedule
        IN  IF i + 1 > 4 \/ (i + 1 <= Len(ld.security_dates) /\ ld.security_dates[i + 1] = None)
            THEN added
            ELSE SecurityWalk(ld, added, k + 1, i + 1)
    ELSE SecurityWalk(ld, schedule, k + 1, i)

_apply_security_deposit_increases(ld, schedule) ==
    IF ld.security_dates = <<>> THEN schedule ELSE SecurityWalk(ld, schedule, 1, 1)

RECURSIVE ImpairWalk(_, _, _, _)
ImpairWalk(ld, schedule, k, i) ==
    IF k > Len(schedule) THEN schedule
    ELSE LET impairAmount == IF i <= Len(ld.impairments) THEN OrZero(ld.impairments[i]) ELSE 0
         IN  IF DateAt(ld.impairment_dates, i) # None
                /\ schedule[k].date = ld.impairment_dates[i][1] /\ impairAmount > 0
             THEN LET added == [schedule EXCEPT ![k].depreciation = @ + impairAmount]
                  IN  IF i + 1 > 5 THEN added ELSE ImpairWalk(ld, added, k + 1, i + 1)
             ELSE ImpairWalk(ld, schedule, k + 1, i)

_apply_impairments(ld, schedule) ==
    IF ld.impairment_dates = <<>> THEN schedule ELSE ImpairWalk(ld, schedule, 1, 1)

RECURSIVE ManualWalk(_, _, _, _)
ManualWalk(ld, schedule, k, i) ==
    IF k > Len(schedule) THEN schedule
    ELSE IF DateAt(ld.rental_dates, i) # None
            /\ schedule[k].date = ld.rental_dates[i][1] THEN
        LET rentalamount == _get_rental_from_schedule(ld, ld.rental_dates[i][1])
            set == [schedule EXCEPT
                       ![k].rental_amount = rentalamount,
                       ![k].pv_of_rent = MulFactor(rentalamount, schedule[k].pv_factor)]
        IN  IF i + 1 > 20 THEN set ELSE ManualWalk(ld, set, k + 1, i + 1)
    ELSE ManualWalk(ld, schedule, k + 1, i)

_apply_manual_rental_adjustments(ld, schedule) ==
    IF ld.manual_adj # "Yes" THEN schedule
    ELSE IF ld.rental_dates = <<>> THEN schedule
    ELSE ManualWalk(ld, schedule, 1, 1)

\* amortization of the generated rows, followed by the three post-passes of
\* the rental-schedule and escalation modes
Finish(ld, tables, rows, post_passes) ==
    LET Passes(calc) ==
            IF calc.status # "ok" \/ ~post_passes THEN calc
            ELSE Returned(_apply_manual_rental_adjustments(ld,
                              _apply_impairments(ld,
                                  _apply_security_deposit_increases(ld, calc.schedule))))
    IN  IF rows.status # "ok" THEN rows
        ELSE Passes(_apply_basic_calculations(ld, tables, rows.schedule))

generate_complete_schedule(ld, tables) ==
    IF ld.lease_start_date = None \/ ld.end_date = None THEN Returned(<<>>)
    ELSE Finish(ld, tables,
                IF ld.rental_schedule # <<>> THEN Returned(RentalScheduleRows(ld))
                ELSE IF ld.end_date[1] = ld.lease_start_date[1]
                THEN Returned(<<_create_schedule_row(
                                    ld.lease_start_date[1],
                                    _get_rental_from_schedule(ld, firstpaymentDate(ld)),
                                    _get_aro_for_date(ld, ld.lease_start_date[1]), 0)>>)
                ELSE EscalationRows(ld),
                ld.rental_schedule # <<>> \/ ld.end_date[1] # ld.lease_start_date[1])

-----------------------------------------------------------------------------
(* Contracts *)

\* LeaseData(auto_id) with the dataclass defaults
LeaseData(auto_id) ==
    [ auto_id |-> auto_id,
      lease_start_date |-> None,
      first_payment_date |-> None,
      end_date |-> None,
      termination_date |-> None,
      transition_date |-> None,
      frequency_months |-> 1,
      day_of_month |-> [kind |-> "int", val |-> 1],
      accrual_day |-> 1,
      escalation_start |-> None,
      escalation_percent |-> None,
      esc_freq_months |-> 12,
      manual_adj |-> "No",
      payment_type |-> "advance",
      rental_dates |-> <<>>,
      rental_schedule |-> <<>>,
      borrowing_rate |-> None,
      compound_months |-> None,
      fv_of_rou |-> None,
      bargain_purchase |-> "No",
      purchase_option_price |-> None,
      title_transfer |-> "No",
      useful_life |-> None,
      security_deposit |-> None,
      security_discount |-> None,
      increase_security |-> <<None, None, None, None>>,
      security_dates |-> <<>>,
      aro |-> None,
      aro_table |-> 0,
      aro_revisions |-> <<>>,
      aro_dates |-> <<>>,
      initial_direct_expenditure |-> None,
      prepaid_accrual |-> None,
      lease_incentive |-> None,
      sublease |-> "No",
      sublease_rou |-> None,
      impairments |-> <<None, None, None, None, None>>,
      impairment_dates |-> <<>>,
      finance_lease_usgaap |-> "No",
      short_term_lease_ifrs |-> "No",
      short_term_lease_usgaap |-> "No",
      gaap_standard |-> "IFRS",
      transition_option |-> None,
      date_modified |-> None,
      modifies_this_id |-> None,
      termination_penalty |-> None,
      description |-> "",
      asset_class |-> "",
      currency |-> "USD",
      group_entity_name |-> "",
      profit_center |-> "",
      cost_centre |-> "" ]

\* one entry of LeaseData.rental_schedule
RentalEntry(start_date, end_date, rental_count, amount) ==
    [start_date |-> start_date, end_date |-> end_date,
     rental_count |-> rental_count, amount |-> amount]

DayStr(v) == [kind |-> "str", val |-> v]
DayInt(v) == [kind |-> "int", val |-> v]
DayLast == [kind |-> "Last", val |-> 0]

-----------------------------------------------------------------------------
(* The global RFR table *)

\* RFRRateTable(): the default tables, newest entry first.  A rate is kept in
\* whole percent (the source keeps 7.03 as 0.0703); the entries of table 1
\* older than 2019 cannot be selected for a date of 2024 and are left out
DefaultRateTables ==
    (1 :> << [date |-> MkDate(2019, 5, 1), rate |-> 7],
             [date |-> MkDate(2019, 3, 31), rate |-> 7],
             [date |-> MkDate(2019, 3, 1), rate |-> 7] >>)
    @@ (2 :> << [date |-> MkDate(2019, 3, 1), rate |-> 9] >>)
    @@ (3 :> << >>)

\* list.sort(key=lambda x: x[0], reverse=True): a stable sort, newest first
RECURSIVE SortNewestFirst(_)
SortNewestFirst(t) ==
    IF t = <<>> THEN <<>>
    ELSE LET rest == SortNewestFirst(SubSeq(t, 1, Len(t) - 1))
             x == t[Len(t)]
             n == Cardinality({k \in 1 .. Len(rest) : rest[k].date >= x.date})
         IN  SubSeq(rest, 1, n) \o <<x>> \o SubSeq(rest, n + 1, Len(rest))

\* update_rfr_table(rates): the tables are replaced, each sorted newest first
update_rfr_table(rates) == [t \in DOMAIN rates |-> SortNewestFirst(rates[t])]

\* arguments of update_rfr_table a caller passes (entries in file order)
RateUpdates ==
    { (1 :> << [date |-> MkDate(2019, 5, 1), rate |-> 7],
               [date |-> MkDate(2024, 1, 15), rate |-> 9] >>)
      @@ (2 :> << [date |-> MkDate(2019, 3, 1), rate |-> 9] >>)
      @@ (3 :> << >>) }

-----------------------------------------------------------------------------
(* The contracts the schedule generator is run on *)

\* longest lease term, in months
MaxTermMonths == 3

LeaseStart == MkDate(2024, 1, 1)

\* one rental segment of 1000 a month over the whole term
RentalContract(term, day, payment_type, rate) ==
    LET lease_end == eomonth(LeaseStart, term - 1)
    IN  [LeaseData(1) EXCEPT
            !.lease_start_date = Some(LeaseStart),
            !.end_date = Some(lease_end),
            !.first_payment_date = IF day.kind = "Last" THEN None
                                   ELSE Some(ReplaceDay(LeaseStart, day.val)),
            !.day_of_month = day,
            !.payment_type = payment_type,
            !.borrowing_rate = rate,
            !.rental_schedule = <<RentalEntry(LeaseStart, lease_end, term, 1000)>>]

\* no rental schedule: the day-by-day escalation loop builds the rows
EscalationContract(term, frequency_months, rate) ==
    [LeaseData(2) EXCEPT
        !.lease_start_date = Some(LeaseStart),
        !.end_date = Some(eomonth(LeaseStart, term - 1)),
        !.day_of_month = DayLast,
        !.frequency_months = frequency_months,
        !.borrowing_rate = rate]

\* optional inputs of a contract, one group at a time
Features ==
    {"plain", "manual", "impairment", "aro", "aro_revised", "fv_of_rou", "security",
     "operating", "incentive", "sublease", "terminated", "transition"}

WithFeature(ld, f) ==
    CASE f = "manual" ->
           [ld EXCEPT !.manual_adj = "Yes",
                      !.rental_dates = <<Some(eomonth(LeaseStart, 0))>>]
      [] f = "impairment" ->
           [ld EXCEPT !.impairments = <<Some(100), None, None, None, None>>,
                      !.impairment_dates = <<Some(eomonth(LeaseStart, 0))>>]
      [] f = "aro" -> [ld EXCEPT !.aro = Some(2000), !.aro_table = 1]
      [] f = "aro_revised" ->
           [ld EXCEPT !.aro = Some(2000), !.aro_table = 1,
                      !.aro_dates = <<Some(eomonth(LeaseStart, 0))>>,
                      !.aro_revisions = <<Some(3000)>>]
      [] f = "fv_of_rou" -> [ld EXCEPT !.fv_of_rou = Some(5000)]
      [] f = "security" ->
           [ld EXCEPT !.security_deposit = Some(1000), !.security_discount = Some(6),
                      !.security_dates = <<Some(eomonth(LeaseStart, 0)), None, None, None>>,
                      !.increase_security = <<Some(500), None, None, None>>,
                      !.initial_direct_expenditure = Some(300)]
      [] f = "operating" -> [ld EXCEPT !.gaap_standard = "US-GAAP"]
      [] f = "incentive" -> [ld EXCEPT !.lease_incentive = Some(300)]
      [] f = "sublease" -> [ld EXCEPT !.sublease = "Yes", !.sublease_rou = Some(3000)]
      [] f = "terminated" ->
           [ld EXCEPT !.termination_date = Some(eomonth(LeaseStart, 0)),
                      !.termination_penalty = Some(50)]
      [] f = "transition" ->
           [ld EXCEPT !.transition_option = Some("2B"),
                      !.transition_date = Some(LeaseStart + 1),
                      !.prepaid_accrual = Some(500),
                      !.initial_direct_expenditure = Some(300)]
      [] OTHER -> ld

Rates == {None, Some(12)}

ScheduleContracts ==
    { WithFeature(RentalContract(term, day, payment_type, rate), f) :
          term \in 1 .. MaxTermMonths, day \in {DayStr(5), DayLast},
          payment_type \in {"advance", "arrear"}, rate \in Rates, f \in Features }
    \cup { EscalationContract(term, frequency_months, rate) :
               term \in 1 .. MaxTermMonths, frequency_months \in {0, 1, 12},
               rate \in Rates }

-----------------------------------------------------------------------------
(* Schedule generation: a caller builds a contract, calls                  *)
(* generate_complete_schedule, and calls it again on the same contract;    *)
(* update_rfr_table may be called before either call                       *)

NoOutcome == [status |-> "none", err |-> "", schedule |-> <<>>]
\* ProcessingFilters() with the dataclass defaults
ProcessingFilters ==
    [ start_date |-> None,
      end_date |-> None,
      cost_center_filter |-> None,
      entity_filter |-> None,
      asset_class_filter |-> None,
      profit_center_filter |-> None,
      gaap_standard |-> "IFRS" ]
Unused == <<>>

InitSchedule ==
    /\ contract \in ScheduleContracts
    /\ pc = "idle"
    /\ outcome = NoOutcome
    /\ first = NoOutcome
    /\ before = contract
    /\ rfr = DefaultRateTables
    /\ filters = ProcessingFilters
    /\ query = None
    /\ result = Unused
    /\ journal = <<>>
    /\ batch = Unused

\* schedule = generate_complete_schedule(lease_data); no statement of the
\* generator assigns to a field of lease_data
CallGenerate ==
    /\ pc = "idle"
    /\ outcome' = generate_complete_schedule(contract, rfr)
    /\ before' = contract
    /\ pc' = "called"
    /\ UNCHANGED <<contract, first, rfr, filters, query, result, journal, batch>>

UpdateRfrTable ==
    /\ pc \in {"idle", "called"}
    /\ \E rates \in RateUpdates : rfr' = update_rfr_table(rates)
    /\ rfr' # rfr
    /\ UNCHANGED <<contract, pc, outcome, first, before, filters, query, result, journal, batch>>

CallGenerateAgain ==
    /\ pc = "called"
    /\ first' = outcome
    /\ outcome' = generate_complete_schedule(contract, rfr)
    /\ pc' = "again"
    /\ UNCHANGED <<contract, before, rfr, filters, query, result, journal, batch>>

NextSchedule == CallGenerate \/ UpdateRfrTable \/ CallGenerateAgain

SpecSchedule == InitSchedule /\ [][NextSchedule]_vars

-----------------------------------------------------------------------------
(* Properties of the returned schedule *)

\* the schedule a finished call returned
Rows == outcome.schedule
Generated == pc \in {"called", "again"} /\ outcome.status = "ok"

\* C2: in the returned schedule, after the post-passes, every row i >= 1 has
\* lease_liability_i = lease_liability_(i-1) - rental_amount_i + interest_i
C2_LiabilityRollsForward ==
    Generated =>
        \A i \in 2 .. Len(Rows) :
            Rows[i].lease_liability
                = Rows[i - 1].lease_liability - Rows[i].rental_amount + Rows[i].interest

RECURSIVE SumRentalPv(_, _)
SumRentalPv(schedule, k) ==
    IF k > Len(schedule) THEN 0
    ELSE MulFactor(schedule[k].rental_amount, schedule[k].pv_factor)
         + SumRentalPv(schedule, k + 1)

\* C3: for a contract without fv_of_rou, the lease_liability of row 0 of the
\* returned schedule equals the sum of rental_amount x pv_factor over the
\* rows of that schedule, with or without a payment on the start date and
\* with or without manual rental overrides
C3_OpeningLiabilityIsPvOfRentals ==
    (Generated /\ ~Truthy(contract.fv_of_rou) /\ Rows # <<>>) =>
        Rows[1].lease_liability = SumRentalPv(Rows, 1)

\* C4: in the returned schedule every row i >= 1 has
\* 0 <= depreciation_i <= rou_asset_(i-1), under the straight-line and the
\* US-GAAP operating formula, and on rows that receive an impairment
C4_DepreciationWithinRou ==
    Generated =>
        \A i \in 2 .. Len(Rows) :
            0 <= Rows[i].depreciation /\ Rows[i].depreciation <= Rows[i - 1].rou_asset

\* C6: the returned schedule has strictly increasing row dates, in
\* rental-schedule mode and in escalation mode
C6_DatesStrictlyIncrease ==
    Generated => \A i \in 2 .. Len(Rows) : Rows[i - 1].date < Rows[i].date

\* a rental-schedule contract paid on the 5th came back with its payment
\* rows between the month-end rows
C6_Witness ==
    /\ Generated
    /\ contract.rental_schedule # <<>>
    /\ contract.day_of_month = DayStr(5)
    /\ Len(Rows) >= 5

NamesBorrowingRate(err) ==
    err = "ValueError: borrowing_rate is required but was not provided in the lease data"

\* C8: with borrowing_rate absent, generate_complete_schedule on a contract
\* with a start and an end date ends in an error that names borrowing_rate
\* and returns no schedule
C8_MissingRateIsReported ==
    (/\ pc \in {"called", "again"}
     /\ contract.borrowing_rate = None
     /\ contract.lease_start_date # None
     /\ contract.end_date # None) =>
        (outcome.status = "raised" /\ NamesBorrowingRate(outcome.err))

\* C10: two calls of generate_complete_schedule on the same unchanged
\* contract return schedules equal row by row in every field, and the call
\* leaves the contract unchanged
C10_SecondCallAgrees ==
    (pc = "again" /\ contract = before) => (outcome = first /\ contract = before)

-----------------------------------------------------------------------------
(* JournalGenerator: the journal of one lease result *)

\* LeaseResult(lease_id) with the dataclass defaults
LeaseResult(lease_id) ==
    [ lease_id |-> lease_id,
      opening_lease_liability |-> 0,
      opening_rou_asset |-> 0,
      opening_aro_liability |-> 0,
      opening_security_deposit |-> 0,
      interest_expense |-> 0,
      depreciation_expense |-> 0,
      rent_paid |-> 0,
      aro_interest |-> 0,
      security_deposit_change |-> 0,
      closing_lease_liability_current |-> 0,
      closing_lease_liability_non_current |-> 0,
      closing_rou_asset |-> 0,
      closing_aro_liability |-> 0,
      closing_security_deposit |-> 0,
      gain_loss_pnl |-> 0,
      sublease_gain_loss |-> None,
      termination_gain_loss |-> None ]

JournalEntry(bs_pl, account_code, account_name, result_period, previous_period, opening_balance) ==
    [ bs_pl |-> bs_pl,
      account_code |-> account_code,
      account_name |-> account_name,
      result_period |-> result_period,
      previous_period |-> previous_period,
      opening_balance |-> opening_balance,
      incremental_adjustment |-> 0,
      ifrs_adjustment |-> 0,
      usgaap_entry |-> 0 ]

_get_account_code(account_name) ==
    CASE account_name = "Lease Liability Non-current" -> "2101"
      [] account_name = "Lease Liability Current" -> "2102"
      [] account_name = "RoU Asset (net)" -> "1200"
      [] account_name = "Interest Cost" -> "5101"
      [] account_name = "Depreciation" -> "5102"
      [] account_name = "Rent Paid" -> "5103"
      [] account_name = "ARO Interest" -> "5104"
      [] account_name = "Interest on Security Dep" -> "5105"
      [] account_name = "ARO Provision Closing" -> "2201"
      [] account_name = "Security Deposit - Non-current" -> "1201"
      [] account_name = "Security Deposit - Current" -> "1202"
      [] account_name = "Retained Earnings" -> "3100"
      [] account_name = "(Gain)/Loss in P&L" -> "5200"
      [] OTHER -> ""

\* self.journal_entries.append(entry); opening_balance is an Optional
_add_entry(journal_entries, bs_pl, account_name, account_code, result_period, previous_period, opening_balance) ==
    Append(journal_entries,
           JournalEntry(bs_pl,
                        IF account_code = "" THEN _get_account_code(account_name)
                        ELSE account_code,
                        account_name, result_period, previous_period,
                        IF opening_balance = None
                        THEN (IF bs_pl = "PL" THEN 0 ELSE previous_period)
                        ELSE opening_balance[1]))

NoTotal(journal_entries, k) == 0

\* sum(e.result_period for e in self.journal_entries if e.result_period > 0)
RECURSIVE total_debits(_, _)
total_debits(journal_entries, k) ==
    IF k > Len(journal_entries) THEN 0
    ELSE (IF journal_entries[k].result_period > 0
          THEN journal_entries[k].result_period ELSE 0)
         + total_debits(journal_entries, k + 1)

\* sum(e.result_period for e in self.journal_entries if e.result_period < 0)
RECURSIVE total_credits(_, _)
total_credits(journal_entries, k) ==
    IF k > Len(journal_entries) THEN 0
    ELSE (IF journal_entries[k].result_period < 0
          THEN journal_entries[k].result_period ELSE 0)
         + total_credits(journal_entries, k + 1)

\* the incremental adjustment and the IFRS / US-GAAP columns of one entry
Adjusted(gaap_standard, entry) ==
    [entry EXCEPT
        !.incremental_adjustment = entry.result_period - entry.previous_period,
        !.ifrs_adjustment = IF gaap_standard = "US-GAAP" THEN 0 ELSE entry.result_period,
        !.usgaap_entry = IF gaap_standard \in {"IFRS", "IndAS"} THEN 0
                         ELSE entry.result_period]

generate_journals(gaap_standard, lease_result, previous_result) ==
    LET Has == previous_result # None
        Prev(name) == IF Has THEN previous_result[1][name] ELSE 0
        One(bs_pl, account_name, result_period, previous_period, opening_balance) ==
            _add_entry(<<>>, bs_pl, account_name, "", result_period, previous_period,
                       Some(opening_balance))
        Balanced(entries, retained_earnings) ==
            _add_entry(entries, "BS", "Retained Earnings", "", 0 - retained_earnings,
                       0 - Prev("gain_loss_pnl"), Some(0 - Prev("gain_loss_pnl")))
        Closed(entries) ==
            Balanced(entries, total_credits(entries, 1) + total_debits(entries, 1))
        Columns(entries) ==
            [k \in 1 .. Len(entries) |-> Adjusted(gaap_standard, entries[k])]
    IN  Columns(Closed(
            One("BS", "Lease Liability Non-current",
                0 - lease_result.closing_lease_liability_non_current,
                0 - Prev("closing_lease_liability_non_current"),
                0 - Prev("closing_lease_liability_non_current"))
            \o One("BS", "Lease Liability Current",
                   0 - lease_result.closing_lease_liability_current,
                   0 - Prev("closing_lease_liability_current"),
                   0 - Prev("closing_lease_liability_current"))
            \o One("PL", "Interest Cost", lease_result.interest_expense,
                   Prev("interest_expense"), 0)
            \o One("BS", "RoU Asset (net)", lease_result.closing_rou_asset,
                   Prev("closing_rou_asset"), Prev("closing_rou_asset"))
            \o One("PL", "Depreciation", lease_result.depreciation_expense,
                   Prev("depreciation_expense"), 0)
            \o (IF lease_result.gain_loss_pnl # 0
                THEN One("PL", "(Gain)/Loss in P&L", lease_result.gain_loss_pnl,
                         Prev("gain_loss_pnl"), 0)
                ELSE <<>>)
            \o (IF lease_result.aro_interest # 0
                THEN One("PL", "ARO Interest", lease_result.aro_interest,
                         Prev("aro_interest"), 0)
                ELSE <<>>)
            \o (IF lease_result.closing_aro_liability # 0
                THEN One("BS", "ARO Provision Closing", lease_result.closing_aro_liability,
                         Prev("closing_aro_liability"), Prev("closing_aro_liability"))
                ELSE <<>>)
            \o (IF lease_result.security_deposit_change # 0
                THEN One("PL", "Interest on Security Dep",
                         lease_result.security_deposit_change,
                         Prev("security_deposit_change"), 0)
                ELSE <<>>)
            \o (IF lease_result.closing_security_deposit > 0
                THEN One("BS", "Security Deposit",
                         0 - lease_result.closing_security_deposit,
                         0 - Prev("closing_security_deposit"),
                         0 - Prev("closing_security_deposit"))
                ELSE <<>>)
            \o One("PL", "Rent Paid", 0 - lease_result.rent_paid,
                   0 - Prev("rent_paid"), 0)))

RECURSIVE SumResultPeriod(_, _)
SumResultPeriod(journal_entries, k) ==
    IF k > Len(journal_entries) THEN 0
    ELSE journal_entries[k].result_period + SumResultPeriod(journal_entries, k + 1)

\* abs(total) < 0.01
verify_balance(journal_entries) == Abs(SumResultPeriod(journal_entries, 1)) * 100 < 1

-----------------------------------------------------------------------------
(* LeaseProcessor: balances at a date, period activity, one lease's result *)

\* (liability, rou, aro, security_deposit) of a row; "or 0.0" on the Optional
Balances(row) ==
    [ liability |-> row.lease_liability,
      rou |-> row.rou_asset,
      aro |-> OrZero(row.aro_provision),
      security |-> row.security_deposit_pv ]

NoBalances == [liability |-> 0, rou |-> 0, aro |-> 0, security |-> 0]

\* the rows at which the loop of either lookup returns: an exact match, or a
\* row before balance_date whose successor is after it
Returning(schedule, balance_date) ==
    {i \in 1 .. Len(schedule) :
        \/ schedule[i].date = balance_date
        \/ /\ i < Len(schedule)
           /\ schedule[i].date < balance_date
           /\ balance_date < schedule[i + 1].date}

Lowest(S) == CHOOSE i \in S : \A j \in S : i <= j
Highest(S) == CHOOSE i \in S : \A j \in S : i >= j

get_opening_balances(schedule, balance_date) ==
    LET At(hits) ==
            IF hits # {} THEN Balances(schedule[Lowest(hits)])
            ELSE IF schedule # <<>>
            THEN (IF balance_date < schedule[1].date THEN Balances(schedule[1])
                  ELSE Balances(schedule[Len(schedule)]))
            ELSE NoBalances
    IN  At(Returning(schedule, balance_date))

get_closing_balances(schedule, balance_date) ==
    LET Fallback(closing) ==
            IF closing.liability = 0 /\ closing.rou = 0 /\ schedule # <<>>
            THEN Balances(schedule[1])
            ELSE closing
        Tracked(upto) ==
            Fallback(IF upto = {} THEN NoBalances ELSE Balances(schedule[Highest(upto)]))
        At(hits) ==
            IF hits # {} THEN Balances(schedule[Lowest(hits)])
            ELSE Tracked({i \in 1 .. Len(schedule) : schedule[i].date <= balance_date})
    IN  At(Returning(schedule, balance_date))

\* the compounding period of the fallback of _get_pv_factor_at_date
FallbackCompound(ld) ==
    IF Truthy(ld.compound_months) /\ ld.compound_months[1] > 0 THEN ld.compound_months[1]
    ELSE IF ld.frequency_months = 3 THEN 3
    ELSE IF ld.frequency_months = 6 THEN 6
    ELSE IF ld.frequency_months >= 12 THEN 12
    ELSE 1

\* the row before balance_date that the second loop of
\* _get_pv_factor_at_date holds when it meets the first later row
PreviousRows(schedule, balance_date) ==
    LET Before(later) ==
            {i \in 1 .. Len(schedule) :
                /\ schedule[i].date < balance_date
                /\ \A j \in later : i < j}
    IN  Before({i \in 1 .. Len(schedule) : schedule[i].date > balance_date})

\* the fallback raises ValueError when there is no borrowing_rate
PvFactorRaises(schedule, balance_date, ld) ==
    /\ \A i \in 1 .. Len(schedule) : schedule[i].date # balance_date
    /\ PreviousRows(schedule, balance_date) = {}
    /\ schedule # <<>>
    /\ ld.borrowing_rate = None

_get_pv_factor_at_date(schedule, balance_date, ld) ==
    LET OrOne(pv_factor) == IF pv_factor # 0 THEN pv_factor ELSE Scale
        Interpolated(previous) ==
            IF previous # {} THEN OrOne(schedule[Highest(previous)].pv_factor)
            ELSE IF schedule # <<>> /\ balance_date - schedule[1].date > 0
            THEN PvFactor(ld.borrowing_rate[1], FallbackCompound(ld),
                          balance_date - schedule[1].date)
            ELSE Scale
    IN  IF HasRowAt(schedule, balance_date)
        THEN OrOne(schedule[FirstRowAt(schedule, balance_date)].pv_factor)
        ELSE Interpolated(PreviousRows(schedule, balance_date))

NoActivity ==
    [ depreciation |-> 0, interest |-> 0, rent_paid |-> 0, aro_interest |-> 0,
      security_change |-> 0, change_rou |-> 0, prev_security_pv |-> 0 ]

\* the loop of calculate_period_activity from row k, act holding the sums and
\* prev_security_pv
RECURSIVE PeriodActivity(_, _, _, _, _, _)
PeriodActivity(schedule, start_date, end_date, date_modified, k, act) ==
    IF k > Len(schedule) THEN act
    ELSE PeriodActivity(schedule, start_date, end_date, date_modified, k + 1,
            IF schedule[k].is_opening
            THEN [act EXCEPT !.prev_security_pv = schedule[k].security_deposit_pv]
            ELSE IF start_date < schedule[k].date /\ schedule[k].date <= end_date
            THEN [ depreciation |-> act.depreciation + Abs(schedule[k].depreciation),
                   interest |-> act.interest + Abs(schedule[k].interest),
                   rent_paid |->
                       act.rent_paid
                           + (IF date_modified # None /\ schedule[k].date = date_modified[1]
                              THEN 0 ELSE schedule[k].rental_amount),
                   aro_interest |-> act.aro_interest + schedule[k].aro_interest,
                   security_change |->
                       act.security_change
                           + (IF k > 1
                              THEN schedule[k].security_deposit_pv - act.prev_security_pv
                              ELSE 0),
                   change_rou |-> act.change_rou + schedule[k].change_in_rou,
                   prev_security_pv |-> schedule[k].security_deposit_pv ]
            ELSE act)

calculate_period_activity(schedule, start_date, end_date, date_modified) ==
    PeriodActivity(schedule, start_date, end_date, date_modified, 1, NoActivity)

\* rental * pv_factor summed over the payments of the twelve months after
\* the balance date
RECURSIVE CurrentPayments(_, _, _, _)
CurrentPayments(schedule, end_date, twelve_months_later, k) ==
    IF k > Len(schedule) THEN 0
    ELSE (IF /\ schedule[k].date > end_date
             /\ schedule[k].date <= twelve_months_later
             /\ schedule[k].rental_amount > 0
          THEN schedule[k].rental_amount * schedule[k].pv_factor
          ELSE 0)
         + CurrentPayments(schedule, end_date, twelve_months_later, k + 1)

\* sec_gross: the deposit and its increases dated on or before balance_date
RECURSIVE SecurityGross(_, _, _)
SecurityGross(ld, balance_date, i) ==
    IF i > 4 \/ i > Len(ld.security_dates) THEN 0
    ELSE IF ld.security_dates[i] = None THEN SecurityGross(ld, balance_date, i + 1)
    ELSE IF ld.security_dates[i][1] <= balance_date
    THEN OrZero(ld.increase_security[i]) + SecurityGross(ld, balance_date, i + 1)
    ELSE 0

_calculate_security_deposit_gross(ld, balance_date) ==
    OrZero(ld.security_deposit) + SecurityGross(ld, balance_date, 1)

\* start_date < d <= end_date for an Optional d
InPeriod(d, start_date, end_date) ==
    d # None /\ start_date < d[1] /\ d[1] <= end_date

\* a split that takes the discounted payments as they are
SignedSplit(closing_liability_total, liacurrent) ==
    [current |-> liacurrent, non_current |-> closing_liability_total - liacurrent]

\* current and non-current part of the closing liability
LiabilitySplit(closing_liability_total, liacurrent) ==
    IF closing_liability_total - Abs(liacurrent) < 0
    THEN [current |-> closing_liability_total, non_current |-> 0]
    ELSE [current |-> Abs(liacurrent),
          non_current |-> closing_liability_total - Abs(liacurrent)]

NoResult == [status |-> "none", err |-> "", result |-> <<>>, schedule |-> <<>>]

\* process_single_lease once its schedule is generated; the contracts
\* considered modify no other lease
LeaseResultOf(ld, selected, schedule) ==
    LET start_date == selected.start_date[1]
        end_date == selected.end_date[1]
        subl == IF ld.sublease = "Yes" THEN -1 ELSE 1
        Row(d) == IF HasRowAt(schedule, d)
                  THEN <<schedule[FirstRowAt(schedule, d)]>> ELSE <<>>
        sublease_gain_loss ==
            IF ld.sublease = "Yes" /\ InPeriod(ld.lease_start_date, start_date, end_date)
            THEN (IF Row(ld.lease_start_date[1]) # <<>>
                  THEN Some(Row(ld.lease_start_date[1])[1].rou_asset
                                - Row(ld.lease_start_date[1])[1].lease_liability)
                  ELSE Some(0))
            ELSE None
        Terminated(row) ==
            OrZero(ld.termination_penalty) + row.rou_asset - row.lease_liability
                - _calculate_security_deposit_gross(ld, ld.termination_date[1])
                + row.security_deposit_pv - OrZero(row.aro_provision)
                + OrZero(sublease_gain_loss)
        termination_gain_loss ==
            IF InPeriod(ld.termination_date, start_date, end_date)
               /\ Row(ld.termination_date[1]) # <<>>
            THEN Some(Terminated(Row(ld.termination_date[1])[1]))
            ELSE None
        Made(opening, activity, closing, split) ==
            [LeaseResult(ld.auto_id) EXCEPT
                !.opening_lease_liability = opening.liability,
                !.opening_rou_asset = opening.rou,
                !.interest_expense = activity.interest,
                !.depreciation_expense = activity.depreciation,
                !.rent_paid = activity.rent_paid,
                !.aro_interest = activity.aro_interest,
                !.security_deposit_change = activity.security_change,
                !.closing_lease_liability_non_current = split.non_current,
                !.closing_lease_liability_current = split.current,
                !.closing_rou_asset = closing.rou,
                !.closing_aro_liability = closing.aro,
                !.closing_security_deposit = closing.security,
                !.gain_loss_pnl = IF termination_gain_loss # None
                                  THEN termination_gain_loss[1]
                                  ELSE OrZero(sublease_gain_loss),
                !.sublease_gain_loss = sublease_gain_loss,
                !.termination_gain_loss = termination_gain_loss]
        Split(opening, activity, closing, baldatepv) ==
            Made(opening, activity, closing,
                 LiabilitySplit(IF closing.liability > 0 THEN Abs(closing.liability) ELSE 0,
                                IF baldatepv > 0
                                THEN RoundDiv(CurrentPayments(schedule, end_date,
                                                              AddMonths(end_date, 12), 1),
                                              baldatepv) * subl
                                ELSE 0))
    IN  IF PvFactorRaises(schedule, end_date, ld)
        THEN [status |-> "raised",
              err |-> "ValueError: borrowing_rate is required but was not provided in the lease data",
              result |-> <<>>, schedule |-> schedule]
        ELSE [status |-> "ok", err |-> "",
              result |-> Split(get_opening_balances(schedule, start_date),
                               calculate_period_activity(schedule, start_date, end_date,
                                                         ld.date_modified),
                               get_closing_balances(schedule, end_date),
                               _get_pv_factor_at_date(schedule, end_date, ld)),
              schedule |-> schedule]

process_single_lease(ld, selected, tables) ==
    LET Processed(generated) ==
            IF generated.status = "raised"
            THEN [status |-> "raised", err |-> generated.err, result |-> <<>>,
                  schedule |-> <<>>]
            ELSE IF generated.schedule = <<>> THEN NoResult
            ELSE LeaseResultOf(ld, selected, generated.schedule)
    IN  IF selected.start_date = None \/ selected.end_date = None THEN NoResult
        ELSE Processed(generate_complete_schedule(ld, tables))

-----------------------------------------------------------------------------
(* ResultsProcessor: a batch of leases *)

\* a filter that is set and differs from the lease's value
FilteredOut(filter, value) == filter # None /\ filter[1] # "" /\ value # filter[1]

\* "True", "False", or "TypeError" for a date compared with a start_date of None
_should_process_lease(selected, ld) ==
    IF FilteredOut(selected.cost_center_filter, ld.cost_centre) THEN "False"
    ELSE IF FilteredOut(selected.entity_filter, ld.group_entity_name) THEN "False"
    ELSE IF FilteredOut(selected.asset_class_filter, ld.asset_class) THEN "False"
    ELSE IF FilteredOut(selected.profit_center_filter, ld.profit_center) THEN "False"
    ELSE IF selected.start_date # None /\ ld.date_modified # None
            /\ ld.date_modified[1] < selected.start_date[1] THEN "False"
    ELSE IF selected.end_date # None /\ ld.termination_date # None
            /\ selected.start_date = None THEN "TypeError"
    ELSE IF selected.end_date # None /\ ld.termination_date # None
            /\ ld.termination_date[1] < selected.start_date[1] THEN "False"
    ELSE IF selected.start_date # None /\ ld.end_date # None
            /\ ld.end_date[1] < selected.start_date[1] THEN "False"
    ELSE IF selected.end_date # None /\ ld.lease_start_date # None
            /\ ld.lease_start_date[1] > selected.end_date[1] THEN "False"
    ELSE "True"

_is_short_term_lease(selected, ld) ==
    IF selected.gaap_standard = "US-GAAP" THEN ld.short_term_lease_usgaap = "Yes"
    ELSE ld.short_term_lease_ifrs = "Yes"

\* the amounts and identifiers of the Results row of one lease
_convert_to_results_row(ld, lease_result) ==
    LET subl == IF ld.sublease = "Yes" THEN -1 ELSE 1
    IN  [ lease_id |-> ld.auto_id,
          description |-> ld.description,
          asset_class |-> ld.asset_class,
          closing_liability_total |->
              Abs(lease_result.closing_lease_liability_non_current
                      + lease_result.closing_lease_liability_current) * subl,
          closing_liability_current |-> lease_result.closing_lease_liability_current * subl,
          closing_liability_non_current |->
              lease_result.closing_lease_liability_non_current * subl,
          closing_rou_asset |-> lease_result.closing_rou_asset * subl,
          closing_security_deposit |-> lease_result.closing_security_deposit * subl,
          closing_aro_liability |-> lease_result.closing_aro_liability,
          interest_expense |-> lease_result.interest_expense * subl,
          depreciation_expense |-> lease_result.depreciation_expense * subl,
          aro_interest |-> lease_result.aro_interest,
          rent_paid |-> lease_result.rent_paid * subl,
          opening_liability |-> lease_result.opening_lease_liability * subl,
          opening_rou_asset |-> lease_result.opening_rou_asset * subl,
          opening_security_deposit |-> lease_result.opening_security_deposit,
          opening_aro_liability |-> lease_result.opening_aro_liability,
          gain_loss_pnl |-> lease_result.gain_loss_pnl,
          currency |-> IF ld.currency = "" THEN "USD" ELSE ld.currency,
          cost_centre |-> ld.cost_centre,
          sublease |-> ld.sublease ]

RECURSIVE SumColumn(_, _, _)
SumColumn(results, name, k) ==
    IF k > Len(results) THEN 0 ELSE results[k][name] + SumColumn(results, name, k + 1)

\* {} for no results, else the column sums
_calculate_aggregated_totals(results) ==
    IF results = <<>> THEN <<>>
    ELSE [ total_leases |-> Len(results),
           total_closing_liability |-> SumColumn(results, "closing_liability_total", 1),
           total_closing_liability_current |->
               SumColumn(results, "closing_liability_current", 1),
           total_closing_liability_non_current |->
               SumColumn(results, "closing_liability_non_current", 1),
           total_closing_rou_asset |-> SumColumn(results, "closing_rou_asset", 1),
           total_closing_security_deposit |->
               SumColumn(results, "closing_security_deposit", 1),
           total_closing_aro_liability |-> SumColumn(results, "closing_aro_liability", 1),
           total_interest_expense |-> SumColumn(results, "interest_expense", 1),
           total_depreciation_expense |-> SumColumn(results, "depreciation_expense", 1),
           total_aro_interest |-> SumColumn(results, "aro_interest", 1),
           total_rent_paid |-> SumColumn(results, "rent_paid", 1),
           total_opening_liability |-> SumColumn(results, "opening_liability", 1),
           total_opening_rou_asset |-> SumColumn(results, "opening_rou_asset", 1),
           total_gain_loss_pnl |-> SumColumn(results, "gain_loss_pnl", 1) ]

\* f"{journal.account_code}_{journal.account_name}"
account_key(entry) == entry.account_code \o "_" \o entry.account_name

\* consolidated_journals_dict after one journal line: a new key gets an entry
\* of zeros, then four of the line's columns are added to the key's entry
Consolidated(consolidated, entry) ==
    LET Added(dict) ==
            [k \in 1 .. Len(dict) |->
                IF account_key(dict[k]) = account_key(entry)
                THEN [dict[k] EXCEPT
                         !.result_period = @ + entry.result_period,
                         !.previous_period = @ + entry.previous_period,
                         !.ifrs_adjustment = @ + entry.ifrs_adjustment,
                         !.incremental_adjustment = @ + entry.incremental_adjustment]
                ELSE dict[k]]
    IN  Added(IF \E k \in 1 .. Len(consolidated) :
                     account_key(consolidated[k]) = account_key(entry)
              THEN consolidated
              ELSE Append(consolidated,
                          JournalEntry(entry.bs_pl, entry.account_code, entry.account_name,
                                       0, 0, 0)))

RECURSIVE ConsolidateAll(_, _, _)
ConsolidateAll(consolidated, journals, k) ==
    IF k > Len(journals) THEN consolidated
    ELSE ConsolidateAll(Consolidated(consolidated, journals[k]), journals, k + 1)

NoBatch ==
    [ status |-> "ok", err |-> "", processed_count |-> 0, skipped_count |-> 0,
      individual_results |-> <<>>, consolidated |-> <<>> ]

\* the body of the loop of process_bulk_leases for one lease; only what
\* runs inside the try is caught and counted as skipped
HandleLease(selected, tables, bulk, ld) ==
    LET Skipped == [bulk EXCEPT !.skipped_count = @ + 1]
        Tried(processed) ==
            IF processed.status = "raised" THEN Skipped
            ELSE IF processed.status = "none" THEN bulk
            ELSE [bulk EXCEPT
                     !.processed_count = @ + 1,
                     !.individual_results =
                         Append(@, _convert_to_results_row(ld, processed.result)),
                     !.consolidated =
                         ConsolidateAll(@, generate_journals(selected.gaap_standard,
                                                             processed.result, None), 1)]
        Checked(should) ==
            IF should = "TypeError"
            THEN [bulk EXCEPT !.status = "raised", !.err = "TypeError"]
            ELSE IF should = "False" THEN Skipped
            ELSE IF _is_short_term_lease(selected, ld) THEN Skipped
            ELSE Tried(process_single_lease(ld, selected, tables))
    IN  Checked(_should_process_lease(selected, ld))

RECURSIVE BulkLoop(_, _, _, _, _)
BulkLoop(selected, tables, lease_data_list, k, bulk) ==
    IF bulk.status # "ok" \/ k > Len(lease_data_list) THEN bulk
    ELSE BulkLoop(selected, tables, lease_data_list, k + 1,
                  HandleLease(selected, tables, bulk, lease_data_list[k]))

process_bulk_leases(selected, tables, lease_data_list) ==
    LET Report(bulk) ==
            IF bulk.status # "ok"
            THEN [status |-> "raised", err |-> bulk.err]
            ELSE [ status |-> "ok",
                   err |-> "",
                   results |-> bulk.individual_results,
                   aggregated_totals |->
                       _calculate_aggregated_totals(bulk.individual_results),
                   consolidated_journals |-> bulk.consolidated,
                   success |-> TRUE,
                   processed_count |-> bulk.processed_count,
                   skipped_count |-> bulk.skipped_count,
                   total_count |-> Len(lease_data_list) ]
    IN  Report(BulkLoop(selected, tables, lease_data_list, 1, NoBatch))

-----------------------------------------------------------------------------
(* The journal of a lease result: generate_journals is called on a result  *)
(* of a period, with or without the result of the previous period          *)

JournalResults ==
    { [LeaseResult(1) EXCEPT
          !.closing_lease_liability_non_current = non_current,
          !.closing_lease_liability_current = 1000,
          !.interest_expense = 25,
          !.closing_rou_asset = 2700,
          !.depreciation_expense = 150,
          !.gain_loss_pnl = gain,
          !.aro_interest = aro_interest,
          !.closing_aro_liability = aro_interest * 250,
          !.security_deposit_change = security_change,
          !.closing_security_deposit = security,
          !.rent_paid = rent] :
          non_current \in {0, 1800}, gain \in {-40, 0, 40}, aro_interest \in {0, 7},
          security_change \in {0, 3}, security \in {-900, 0, 900}, rent \in {0, 1000} }

PreviousResults ==
    { None,
      Some([LeaseResult(1) EXCEPT
               !.closing_lease_liability_non_current = 2500,
               !.closing_lease_liability_current = 900,
               !.interest_expense = 30,
               !.closing_rou_asset = 3300,
               !.depreciation_expense = 150,
               !.gain_loss_pnl = 15,
               !.closing_security_deposit = 880,
               !.rent_paid = 1000]) }

InitJournal ==
    /\ result \in JournalResults
    /\ \E gaap_standard \in {"IFRS", "IndAS", "US-GAAP", "Local"} :
           filters = [ProcessingFilters EXCEPT !.gaap_standard = gaap_standard]
    /\ pc = "idle"
    /\ journal = <<>>
    /\ contract = Unused
    /\ outcome = NoOutcome
    /\ first = NoOutcome
    /\ before = Unused
    /\ rfr = DefaultRateTables
    /\ query = None
    /\ batch = Unused

\* JournalGenerator(gaap_standard).generate_journals(lease_result, [], previous_result)
GenerateJournals ==
    /\ pc = "idle"
    /\ \E previous_result \in PreviousResults :
           journal' = generate_journals(filters.gaap_standard, result, previous_result)
    /\ pc' = "journalled"
    /\ UNCHANGED <<contract, outcome, first, before, rfr, filters, query, result, batch>>

NextJournal == GenerateJournals

SpecJournal == InitJournal /\ [][NextJournal]_vars

\* C1: the entries returned by generate_journals, with or without a
\* previous-period result, have result_period values that sum to zero: the
\* Retained Earnings line equals minus the sum of all other lines
C1_JournalSumsToZero ==
    pc = "journalled" =>
        /\ SumResultPeriod(journal, 1) = 0
        /\ verify_balance(journal)
        /\ journal[Len(journal)].account_name = "Retained Earnings"
        /\ journal[Len(journal)].result_period
               = 0 - SumResultPeriod(SubSeq(journal, 1, Len(journal) - 1), 1)

\* a journal with every optional line, made with a previous-period result,
\* whose Retained Earnings line balances a non-zero sum
C1_Witness ==
    /\ pc = "journalled"
    /\ Len(journal) = 12
    /\ journal[1].previous_period # 0
    /\ journal[Len(journal)].result_period # 0

-----------------------------------------------------------------------------
(* Balances at a date: the two lookups are called on a schedule with       *)
(* strictly increasing dates                                               *)

MaxRows == 3
BalanceStart == MkDate(2024, 1, 1)
BalanceDates == {BalanceStart + 10 * k : k \in 0 .. (MaxRows - 1)}
QueryDates == {BalanceStart + 5 * k : k \in -1 .. (2 * MaxRows - 1)}

\* row k of a schedule, dated d, with liability and ROU as given
BalanceRow(d, k, liability, rou) ==
    [_create_schedule_row(d, 0, None, k - 1) EXCEPT
        !.lease_liability = liability,
        !.rou_asset = rou,
        !.aro_provision = IF k = 2 THEN None ELSE Some(10 * k),
        !.security_deposit_pv = 100 * k]

RowAmounts == {<<0, 0>>, <<500, 0>>, <<0, 400>>, <<300, 200>>}

\* the schedules of up to MaxRows rows on BalanceDates, dates increasing
BalanceSchedules ==
    UNION { { [k \in 1 .. n |-> BalanceRow(dates[k], k, amounts[k][1], amounts[k][2])] :
                  dates \in {ds \in [1 .. n -> BalanceDates] :
                                \A i \in 1 .. (n - 1) : ds[i] < ds[i + 1]},
                  amounts \in [1 .. n -> RowAmounts] } : n \in 1 .. MaxRows }

InitBalances ==
    /\ \E schedule \in BalanceSchedules : outcome = Returned(schedule)
    /\ \E d \in QueryDates : query = Some(d)
    /\ pc = "idle"
    /\ result = Unused
    /\ contract = Unused
    /\ first = NoOutcome
    /\ before = Unused
    /\ rfr = DefaultRateTables
    /\ filters = ProcessingFilters
    /\ journal = <<>>
    /\ batch = Unused

GetOpeningBalances ==
    /\ pc = "idle"
    /\ result' = get_opening_balances(outcome.schedule, query[1])
    /\ pc' = "opening"
    /\ UNCHANGED <<contract, outcome, first, before, rfr, filters, query, journal, batch>>

GetClosingBalances ==
    /\ pc = "idle"
    /\ result' = get_closing_balances(outcome.schedule, query[1])
    /\ pc' = "closing"
    /\ UNCHANGED <<contract, outcome, first, before, rfr, filters, query, journal, batch>>

NextBalances == GetOpeningBalances \/ GetClosingBalances

SpecBalances == InitBalances /\ [][NextBalances]_vars

\* the balances of the latest row dated on or before d, and of the first
\* row when d is before the first row
LatestRowBalances(schedule, d) ==
    IF d < schedule[1].date THEN Balances(schedule[1])
    ELSE Balances(schedule[Highest({i \in 1 .. Len(schedule) : schedule[i].date <= d})])

\* C7: on a non-empty schedule with strictly increasing dates,
\* get_opening_balances and get_closing_balances each return the balances
\* of the latest row dated on or before the query date, and the first row's
\* balances when the date is before the first row
C7_BalancesOfLatestRow ==
    pc \in {"opening", "closing"} => result = LatestRowBalances(outcome.schedule, query[1])

-----------------------------------------------------------------------------
(* One lease of a period: process_single_lease is called on a contract     *)
(* with the period's filters                                               *)

CloseOffsets == {-1, 0, 4, 15, 30, 35, 59, 90, 120}

ProcessorContracts == {ld \in ScheduleContracts : ld.borrowing_rate # None}

InitProcessor ==
    /\ contract \in ProcessorContracts
    /\ \E k \in CloseOffsets :
           filters = [ProcessingFilters EXCEPT !.start_date = Some(LeaseStart - 1),
                                               !.end_date = Some(LeaseStart + k)]
    /\ pc = "idle"
    /\ outcome = NoResult
    /\ first = NoOutcome
    /\ before = contract
    /\ rfr = DefaultRateTables
    /\ query = None
    /\ result = Unused
    /\ journal = <<>>
    /\ batch = Unused

ProcessSingleLease ==
    /\ pc = "idle"
    /\ outcome' = process_single_lease(contract, filters, rfr)
    /\ pc' = "processed"
    /\ UNCHANGED <<contract, first, before, rfr, filters, query, result, journal, batch>>

NextProcessor == ProcessSingleLease

SpecProcessor == InitProcessor /\ [][NextProcessor]_vars

Processed == pc = "processed" /\ outcome.status = "ok"

ClosingLiability == get_closing_balances(outcome.schedule, filters.end_date[1]).liability

\* C5: in every result of process_single_lease the current and the
\* non-current closing lease liability are both non-negative, and their sum
\* is the closing lease liability found at the close date; amounts are whole
\* units, and a liability that is paid off closes within one unit of zero
C5_SplitIsLossless ==
    Processed =>
        /\ outcome.result.closing_lease_liability_current >= 0
        /\ outcome.result.closing_lease_liability_non_current >= 0
        /\ Abs(outcome.result.closing_lease_liability_current
                + outcome.result.closing_lease_liability_non_current
                - ClosingLiability) <= 1

C5_Witness ==
    /\ Processed
    /\ outcome.result.closing_lease_liability_current > 0
    /\ outcome.result.closing_lease_liability_non_current > 0
    /\ contract.sublease = "Yes"

-----------------------------------------------------------------------------
(* A batch of a period: process_bulk_leases is called on a list of leases  *)
(* with the filters the ResultsProcessor was built with                    *)

MaxBatch == 3

\* a two-month lease of the batch
BulkLease(auto_id, f, rate, short_term) ==
    [WithFeature(RentalContract(2, DayStr(5), "advance", rate), f) EXCEPT
        !.auto_id = auto_id,
        !.short_term_lease_ifrs = short_term]

BulkLeases ==
    { BulkLease(1, "plain", Some(12), "No"),
      BulkLease(2, "aro", Some(12), "No"),
      BulkLease(3, "plain", None, "No"),
      BulkLease(4, "terminated", Some(12), "No"),
      BulkLease(5, "plain", Some(12), "Yes") }

Batches == UNION { [1 .. n -> BulkLeases] : n \in 1 .. MaxBatch }

\* ProcessingFilters(), ProcessingFilters(end_date=...),
\* ProcessingFilters(start_date=..., end_date=...) and the last one with
\* gaap_standard="US-GAAP"
BulkFilters ==
    { ProcessingFilters,
      [ProcessingFilters EXCEPT !.end_date = Some(eomonth(LeaseStart, 0))],
      [ProcessingFilters EXCEPT !.start_date = Some(LeaseStart - 1),
                                !.end_date = Some(eomonth(LeaseStart, 0))],
      [ProcessingFilters EXCEPT !.start_date = Some(LeaseStart - 1),
                                !.end_date = Some(eomonth(LeaseStart, 0)),
                                !.gaap_standard = "US-GAAP"] }

InitBulk ==
    /\ batch \in Batches
    /\ filters \in BulkFilters
    /\ pc = "idle"
    /\ outcome = NoOutcome
    /\ first = NoOutcome
    /\ contract = Unused
    /\ before = Unused
    /\ rfr = DefaultRateTables
    /\ query = None
    /\ result = Unused
    /\ journal = <<>>

ProcessBulkLeases ==
    /\ pc = "idle"
    /\ outcome' = process_bulk_leases(filters, rfr, batch)
    /\ pc' = "bulked"
    /\ UNCHANGED <<contract, first, before, rfr, filters, query, result, journal, batch>>

NextBulk == ProcessBulkLeases

SpecBulk == InitBulk /\ [][NextBulk]_vars

\* handling the lease raises: in the filter checks or in process_single_lease
Raises(ld) ==
    \/ _should_process_lease(filters, ld) = "TypeError"
    \/ /\ _should_process_lease(filters, ld) = "True"
       /\ ~_is_short_term_lease(filters, ld)
       /\ process_single_lease(ld, filters, rfr).status = "raised"

\* the batch without the leases that raise
Others == SelectSeq(batch, LAMBDA ld : ~Raises(ld))

\* C9: when handling a lease of the batch raises, process_bulk_leases still
\* returns, counts that lease in skipped_count, and the other leases give
\* the result rows and the consolidated journal amounts they give in a
\* batch without it
C9_RaisingLeaseIsIsolated ==
    (pc = "bulked" /\ Others # batch) =>
        /\ outcome.status = "ok"
        /\ outcome.results = process_bulk_leases(filters, rfr, Others).results
        /\ outcome.consolidated_journals
               = process_bulk_leases(filters, rfr, Others).consolidated_journals
        /\ outcome.skipped_count
               = process_bulk_leases(filters, rfr, Others).skipped_count
                     + Len(batch) - Len(Others)

-----------------------------------------------------------------------------
(* Rental schedules of several contiguous segments: a caller asks for the  *)
(* rent of one payment date, or generates the schedule of the contract      *)

\* segment k of a stepped rental schedule pays 1000 + step * (k - 1)
SegmentContract(count, months, frequency_months, first_day, payment_type, step) ==
    [LeaseData(3) EXCEPT
        !.lease_start_date = Some(LeaseStart),
        !.end_date = Some(eomonth(LeaseStart, count * months - 1)),
        !.first_payment_date = Some(ReplaceDay(LeaseStart, first_day)),
        !.frequency_months = frequency_months,
        !.day_of_month = DayStr(5),
        !.payment_type = payment_type,
        !.borrowing_rate = Some(12),
        !.rental_schedule =
            [k \in 1 .. count |->
                RentalEntry(AddMonths(LeaseStart, (k - 1) * months),
                            eomonth(LeaseStart, k * months - 1),
                            months, 1000 + step * (k - 1))]]

SegmentContracts ==
    { SegmentContract(count, months, frequency_months, first_day, payment_type, step) :
          count \in 2 .. MaxTermMonths, months \in {1, 2}, frequency_months \in {1, 3},
          first_day \in {1, 5}, payment_type \in {"advance", "arrear"},
          step \in {0, 1000} }

\* the 5th of every month of the term, and the first payment date
SegmentPaymentDates(ld) ==
    { ReplaceDay(d, 5) : d \in ld.lease_start_date[1] .. ld.end_date[1] }
    \cup {ld.first_payment_date[1]}

InitSegments ==
    /\ contract \in SegmentContracts
    /\ pc = "idle"
    /\ outcome = NoOutcome
    /\ first = NoOutcome
    /\ before = contract
    /\ rfr = DefaultRateTables
    /\ filters = ProcessingFilters
    /\ query = None
    /\ result = Unused
    /\ journal = <<>>
    /\ batch = Unused

\* payment_rental_amount = _get_proportionate_rental_for_payment_period(
\*     lease_data, payment_date, frequency_months)
GetProportionateRental ==
    /\ pc = "idle"
    /\ \E payment_date \in SegmentPaymentDates(contract) :
           /\ query' = Some(payment_date)
           /\ result' = _get_proportionate_rental_for_payment_period(
                            contract, payment_date, EntryFrequency(contract))
    /\ pc' = "rented"
    /\ UNCHANGED <<contract, outcome, first, before, rfr, filters, journal, batch>>

NextSegments == GetProportionateRental \/ CallGenerate

SpecSegments == InitSegments /\ [][NextSegments]_vars

\* the accrual period of a payment, before any cap at the lease dates:
\* from the payment date on when paid in advance, up to it when in arrears
PeriodStart(ld, payment_date) ==
    IF PaymentInAdvance(ld) THEN payment_date
    ELSE edate(payment_date, 0 - EntryFrequency(ld))

PeriodEnd(ld, payment_date) ==
    IF PaymentInAdvance(ld) THEN edate(payment_date, EntryFrequency(ld))
    ELSE payment_date

\* the days of the period: the end is exclusive in advance, inclusive in arrears
PeriodDays(ld, payment_date) ==
    IF PaymentInAdvance(ld)
    THEN PeriodEnd(ld, payment_date) - PeriodStart(ld, payment_date)
    ELSE PeriodEnd(ld, payment_date) - PeriodStart(ld, payment_date) + 1

\* the period of payment_date starts in segment i and ends in segment i + 1,
\* which begins the day after segment i ends, inside the lease term
Straddles(ld, payment_date, i) ==
    /\ i + 1 <= Len(ld.rental_schedule)
    /\ ld.rental_schedule[i + 1].start_date = ld.rental_schedule[i].end_date + 1
    /\ ld.rental_schedule[i].start_date <= PeriodStart(ld, payment_date)
    /\ PeriodStart(ld, payment_date) <= ld.rental_schedule[i].end_date
    /\ ld.rental_schedule[i + 1].start_date <= PeriodEnd(ld, payment_date)
    /\ PeriodEnd(ld, payment_date) <= ld.rental_schedule[i + 1].end_date
    /\ ld.lease_start_date[1] <= PeriodStart(ld, payment_date)
    /\ PeriodEnd(ld, payment_date) <= ld.end_date[1]

\* the blend of segments i and i + 1 weighted by the days of the period
\* lying in each, the days of the two adding up to the days of the period
DayWeightedBlend(ld, payment_date, i) ==
    LET boundary == ld.rental_schedule[i + 1].start_date
        days_before == boundary - PeriodStart(ld, payment_date)
        days_after == PeriodDays(ld, payment_date) - days_before
    IN  RoundDiv(days_before * ld.rental_schedule[i].amount
                     + days_after * ld.rental_schedule[i + 1].amount,
                 PeriodDays(ld, payment_date))

\* C11: when the accrual period of a payment straddles the boundary between
\* two contiguous rental segments and is not cut off by the lease end, the
\* rent is the day-weighted blend of the two segment amounts, the overlap
\* days adding up to the full period, so that equal amounts A give A (the
\* weighted shares are rounded one by one, hence the unit of tolerance)
C11_StraddlingRentIsDayWeighted ==
    pc = "rented" =>
        \A i \in 1 .. Len(contract.rental_schedule) :
            Straddles(contract, query[1], i) =>
                /\ result - DayWeightedBlend(contract, query[1], i) <= 1
                /\ DayWeightedBlend(contract, query[1], i) - result <= 1

\* the rows of the returned schedule that carry a payment
PaymentRows == {i \in 1 .. Len(Rows) : Rows[i].rental_amount # 0}

\* C12: in rental-schedule mode every payment row carries the amount of the
\* rental segment whose date range contains the payment date, the last
\* payment dated inside a segment and the last payment before the lease end
\* included
C12_PaymentRowPaysItsSegment ==
    (Generated /\ contract.rental_schedule # <<>>) =>
        \A i \in PaymentRows :
            Rows[i].rental_amount = _get_rental_from_schedule(contract, Rows[i].date)

\* the payment rows form one cadence from first_payment_date to the lease
\* end, every payment frequency_months calendar months after the previous
SingleCadence ==
    /\ PaymentRows # {}
    /\ \A i \in PaymentRows :
           IF \A j \in PaymentRows : i <= j
           THEN Rows[i].date = contract.first_payment_date[1]
           ELSE \E j \in PaymentRows :
                    /\ j < i
                    /\ \A k \in PaymentRows : ~(j < k /\ k < i)
                    /\ Rows[i].date = AddMonths(Rows[j].date, EntryFrequency(contract))
    /\ \A i \in PaymentRows :
           (\A j \in PaymentRows : j <= i) =>
               /\ Rows[i].date <= contract.end_date[1]
               /\ AddMonths(Rows[i].date, EntryFrequency(contract)) > contract.end_date[1]

FirstPaymentOnDay ==
    DayOf(contract.first_payment_date[1]) = contract.day_of_month.val

-----------------------------------------------------------------------------
(* Escalation-formula mode: contracts with a first payment date and a      *)
(* discount rate; a caller generates the schedule, or looks up the rent of  *)
(* one payment number                                                       *)

\* escalation of 10 percent: none, from the start date, or from its 15th day
WithEscalation(ld, escalation) ==
    CASE escalation = "from_start" ->
           [ld EXCEPT !.escalation_start = Some(LeaseStart), !.escalation_percent = Some(10)]
      [] escalation = "offset" ->
           [ld EXCEPT !.escalation_start = Some(LeaseStart + 14),
                      !.escalation_percent = Some(10), !.esc_freq_months = 1]
      [] OTHER -> ld

EscalationLease(term, frequency_months, day, first_payment_date, escalation, rental_schedule) ==
    WithEscalation([LeaseData(4) EXCEPT
                        !.lease_start_date = Some(LeaseStart),
                        !.end_date = Some(eomonth(LeaseStart, term - 1)),
                        !.first_payment_date = Some(first_payment_date),
                        !.frequency_months = frequency_months,
                        !.day_of_month = day,
                        !.borrowing_rate = Some(12),
                        !.rental_schedule = rental_schedule],
                   escalation)

EscalationLeases ==
    { EscalationLease(term, frequency_months, day, first_payment_date, escalation,
                      rental_schedule) :
          term \in 1 .. MaxTermMonths, frequency_months \in {1, 3},
          day \in {DayStr(1), DayStr(15), DayLast},
          first_payment_date \in {LeaseStart, LeaseStart + 14, LeaseStart + 31},
          escalation \in {"none", "from_start", "offset"},
          rental_schedule \in
              {<<>>, <<RentalEntry(LeaseStart, eomonth(LeaseStart, MaxTermMonths - 1),
                                   MaxTermMonths, 1000)>>} }

\* the payment numbers findrent is asked for
RentNumbers == {1, 2, 3, 4, 5, 6}

InitEscalation ==
    /\ contract \in EscalationLeases
    /\ pc = "idle"
    /\ outcome = NoOutcome
    /\ first = NoOutcome
    /\ before = contract
    /\ rfr = DefaultRateTables
    /\ filters = ProcessingFilters
    /\ query = None
    /\ result = Unused
    /\ journal = <<>>
    /\ batch = Unused

\* app_rent, app_rent_date = findrent(lease_data, rent_no)
FindRent ==
    /\ pc = "idle"
    /\ \E rent_no \in RentNumbers :
           /\ query' = Some(rent_no)
           /\ result' = findrent(contract, rent_no)
    /\ pc' = "found"
    /\ UNCHANGED <<contract, outcome, first, before, rfr, filters, journal, batch>>

NextEscalation == CallGenerate \/ FindRent

SpecEscalation == InitEscalation /\ [][NextEscalation]_vars

\* C14: for a contract without a rental schedule that has start date < end
\* date, a first payment date and a discount rate, generate_complete_schedule
\* completes without error and returns a non-empty schedule, and resolving
\* the rent of one payment takes at most 200 escalation-lookup iterations
C14_EscalationModeCompletes ==
    /\ (/\ pc = "called"
        /\ contract.rental_schedule = <<>>
        /\ contract.lease_start_date[1] < contract.end_date[1]
        /\ contract.first_payment_date # None
        /\ contract.borrowing_rate # None) =>
           (outcome.status = "ok" /\ outcome.schedule # <<>>)
    /\ pc = "found" => result.iterations <= 200

-----------------------------------------------------------------------------
(* Properties of the ARO and ROU columns of the returned schedule *)

RECURSIVE SumAroInterest(_, _)
SumAroInterest(schedule, k) ==
    IF k > Len(schedule) THEN 0
    ELSE schedule[k].aro_interest + SumAroInterest(schedule, k + 1)

\* the jump of the provision on a row whose ARO gross amount differs from the
\* previous row's: the provision of the row less what the previous gross
\* amount gives on the same date
RevisionDelta(schedule, k) ==
    LET gross == OrZero(schedule[k].aro_gross)
        previous_gross == OrZero(schedule[k - 1].aro_gross)
        provision == OrZero(schedule[k].aro_provision)
    IN  IF gross = previous_gross \/ gross = 0 THEN 0
        ELSE provision - RoundDiv(provision * previous_gross, gross)

RECURSIVE SumRevisionDeltas(_, _)
SumRevisionDeltas(schedule, k) ==
    IF k > Len(schedule) THEN 0
    ELSE RevisionDelta(schedule, k) + SumRevisionDeltas(schedule, k + 1)

\* C15: for a contract with an ARO that is revalued once during the term,
\* the sum of aro_interest over all rows equals (last row's ARO provision -
\* first row's ARO provision) plus the revision deltas
C15_AroInterestSum ==
    (Generated /\ contract.aro_revisions # <<>> /\ Rows # <<>>) =>
        SumAroInterest(Rows, 1)
            = OrZero(Rows[Len(Rows)].aro_provision) - OrZero(Rows[1].aro_provision)
                  + SumRevisionDeltas(Rows, 2)

\* row 0's ROU follows the initial-ROU rule of the contract
InitialRouRule ==
    IF contract.sublease = "Yes"
    THEN Truthy(contract.sublease_rou) => Rows[1].rou_asset = contract.sublease_rou[1]
    ELSE Rows[1].rou_asset
             = Rows[1].lease_liability
                   + OrZero(contract.initial_direct_expenditure)
                   - OrZero(contract.lease_incentive)

\* C16: row 0's rou_asset equals row 0's lease_liability plus (initial
\* direct expenditure - lease incentive) for a lessee contract, so the two
\* are equal when both costs are zero; for a sublessor it equals the declared
\* sublease ROU
C16_InitialRou == (Generated /\ Rows # <<>>) => InitialRouRule

\* transition option 2B resets the ROU of the row dated the day before the
\* transition date; that row is row 0
TransitionOnStart ==
    /\ contract.transition_option = Some("2B")
    /\ contract.transition_date # None
    /\ contract.transition_date[1] - 1 = Rows[1].date

\* C16 (amended): the rule holds for row 0 unless transition option 2B
\* resets that row, which then carries lease_liability + prepaid_accrual
C16_InitialRouUnlessTransition ==
    (Generated /\ Rows # <<>>) =>
        IF TransitionOnStart
        THEN Rows[1].rou_asset
                 = Rows[1].lease_liability + OrZero(contract.prepaid_accrual)
        ELSE InitialRouRule

\* a lessee with a lease incentive starts with an ROU below the liability
C16_Witness ==
    /\ Generated
    /\ contract.lease_incentive = Some(300)
    /\ Rows[1].lease_liability > 300
    /\ Rows[1].rou_asset = Rows[1].lease_liability - 300

-----------------------------------------------------------------------------
(* The consolidated journal of a batch against the journals of its leases  *)

\* the journal process_bulk_leases generates for one lease of the batch,
\* empty when the lease is skipped
LeaseJournal(ld) ==
    IF Raises(ld) \/ _should_process_lease(filters, ld) # "True"
          \/ _is_short_term_lease(filters, ld)
          \/ process_single_lease(ld, filters, rfr).status # "ok"
    THEN <<>>
    ELSE generate_journals(filters.gaap_standard,
                           process_single_lease(ld, filters, rfr).result, None)

AmountColumns ==
    {"result_period", "previous_period", "opening_balance",
     "incremental_adjustment", "ifrs_adjustment", "usgaap_entry"}

\* the sum of one column over the lines of a journal that carry the key
RECURSIVE KeySum(_, _, _, _)
KeySum(journals, key, column, k) ==
    IF k > Len(journals) THEN 0
    ELSE (IF account_key(journals[k]) = key THEN journals[k][column] ELSE 0)
         + KeySum(journals, key, column, k + 1)

\* the sum of one column of one key over the journals of a list of leases
RECURSIVE BatchSum(_, _, _, _)
BatchSum(lease_data_list, key, column, k) ==
    IF k > Len(lease_data_list) THEN 0
    ELSE KeySum(LeaseJournal(lease_data_list[k]), key, column, 1)
         + BatchSum(lease_data_list, key, column, k + 1)

\* the amounts of a consolidated journal, whatever the order of its lines
Amounts(consolidated) ==
    { <<account_key(consolidated[k]), column, consolidated[k][column]>> :
          k \in 1 .. Len(consolidated), column \in AmountColumns }

Reversed(lease_data_list) ==
    [k \in 1 .. Len(lease_data_list) |->
        lease_data_list[Len(lease_data_list) + 1 - k]]

\* C17: in the consolidated journal of process_bulk_leases every amount
\* column of every (account code, name) entry is the sum of that column over
\* the journals of all processed leases, and the amounts do not depend on
\* the order of the input list
C17_ConsolidatedColumnsAreSums ==
    (pc = "bulked" /\ outcome.status = "ok") =>
        /\ \A k \in 1 .. Len(outcome.consolidated_journals) :
               \A column \in AmountColumns :
                  outcome.consolidated_journals[k][column]
                      = BatchSum(batch, account_key(outcome.consolidated_journals[k]),
                                 column, 1)
        /\ LET other == process_bulk_leases(filters, rfr, Reversed(batch))
           IN  /\ other.status = "ok"
               /\ Amounts(other.consolidated_journals)
                      = Amounts(outcome.consolidated_journals)

-----------------------------------------------------------------------------
(* The loops one pass at a time: every action below runs one pass of one   *)
(* loop of _generate_schedule_from_rental_schedule, of the date loop of    *)
(* generate_complete_schedule, of findrent or of _find_original_lease_id.  *)
(* result holds the variables that steer the loop, result.at and pc its    *)
(* position: "done" once the last loop has been left, "raised" when a pass *)
(* raised; query counts the passes.  The rows a pass writes steer no loop  *)
(* of the rental-schedule mode and are left out there.                     *)

YearError == "ValueError: year is out of range"

\* date + relativedelta(months=n) raises ValueError when the year leaves
\* MINYEAR .. MAXYEAR
MonthsOutOfRange(d, n) ==
    LET Year(t) == t < 12 \/ t > 9999 * 12 + 11
    IN  Year(YearOf(d) * 12 + (MonthOf(d) - 1) + n)

PaymentLoop(at, entry_idx, current, count, appended, last_payment_date) ==
    [at |-> at, entry_idx |-> entry_idx, current |-> current, count |-> count,
     appended |-> appended, last_payment_date |-> last_payment_date]

LoopRaised(err) == [at |-> "raised", err |-> err]

\* generate_complete_schedule up to its first loop
EnterGenerate(ld) ==
    LET starto == ld.lease_start_date[1]
        fpd == firstpaymentDate(ld)
        From(app_rent) ==
            [at |-> "dates", i |-> 1,
             loop |-> LoopState(<<_create_schedule_row(
                                      starto, IF starto = fpd THEN app_rent ELSE 0,
                                      _get_aro_for_date(ld, starto), 0)>>,
                                InitialDayOfMa(ld),
                                IF starto = fpd THEN MonthIndex(starto) ELSE 0,
                                "run", "")]
    IN  IF ld.lease_start_date = None \/ ld.end_date = None THEN [at |-> "done"]
        ELSE IF ld.rental_schedule # <<>>
        THEN PaymentLoop("entries", 1, starto, 0, None, None)
        ELSE IF ld.end_date[1] = starto THEN [at |-> "done"]
        ELSE From(_get_rental_from_schedule(ld, fpd))

\* the top of "for entry_idx, rental_entry in enumerate(rental_schedule)": the
\* entry is skipped, or its first payment date is set; after the last entry
\* the payments continue from last_payment_date when there is one
EnterEntry(ld, st) ==
    LET frequency_months == EntryFrequency(ld)
        last == st.last_payment_date
        After ==
            IF last = None
            THEN PaymentLoop("month_ends", st.entry_idx, ld.lease_start_date[1], 0, None, last)
            ELSE IF MonthsOutOfRange(last[1], frequency_months) THEN LoopRaised(YearError)
            ELSE PaymentLoop("continued", st.entry_idx,
                             ApplyRawDay(ld, edate(last[1], frequency_months)), 0, None, last)
        Later(from_start, payment_date) ==
            IF payment_date < ld.rental_schedule[st.entry_idx].start_date
            THEN PaymentLoop("advance", st.entry_idx, from_start, 0, None, last)
            ELSE PaymentLoop("payments", st.entry_idx, payment_date, 0, None, last)
        Estimated(from_start, day_of_month, next_payment_estimate) ==
            Later(from_start, ApplyDay(next_payment_estimate, day_of_month,
                                       next_payment_estimate))
        First(start_date, day_of_month, from_start) ==
            IF st.entry_idx = 1 THEN
                PaymentLoop("payments", 1,
                            IF ld.first_payment_date # None
                               /\ ld.first_payment_date[1] >= start_date
                            THEN ld.first_payment_date[1] ELSE from_start,
                            0, None, last)
            ELSE IF last = None
            THEN PaymentLoop("payments", st.entry_idx, from_start, 0, None, last)
            ELSE IF MonthsOutOfRange(last[1], frequency_months) THEN LoopRaised(YearError)
            ELSE Estimated(from_start, day_of_month, edate(last[1], frequency_months))
        OnDay(start_date, day_of_month) ==
            First(start_date, day_of_month, ApplyDay(start_date, day_of_month, start_date))
        Entry(e) ==
            IF e.start_date >= e.end_date \/ e.rental_count <= 0
            THEN [st EXCEPT !.entry_idx = @ + 1]
            ELSE OnDay(e.start_date, ParsedDayOfMonth(ld, e.start_date))
    IN  IF st.entry_idx > Len(ld.rental_schedule) THEN After
        ELSE Entry(ld.rental_schedule[st.entry_idx])

\* one pass of "while payment_date < start_date" of a subsequent entry
AdvanceToStartPass(ld, st) ==
    LET frequency_months == EntryFrequency(ld)
        Moved(day_of_month, nxt) ==
            [st EXCEPT !.current = ApplyDay(nxt, day_of_month, nxt)]
        Entry(e) ==
            IF st.current >= e.start_date THEN [st EXCEPT !.at = "payments"]
            ELSE IF MonthsOutOfRange(st.current, frequency_months)
            THEN LoopRaised(YearError)
            ELSE Moved(ParsedDayOfMonth(ld, e.start_date),
                       edate(st.current, frequency_months))
    IN  Entry(ld.rental_schedule[st.entry_idx])

\* one pass of "while current_payment_date <= target_end_date"; on leaving,
\* last_payment_date becomes max(payment_dates) when a date was appended
PaymentDatesPass(ld, st) ==
    LET frequency_months == EntryFrequency(ld)
        target_end_date == ld.end_date[1]
        Leave ==
            PaymentLoop("entries", st.entry_idx + 1, st.current, 0, None,
                        IF st.appended # None THEN st.appended ELSE st.last_payment_date)
        Loop(e, stepped, next_payment_estimate) ==
            IF st.current < e.start_date THEN [st EXCEPT !.current = stepped]
            ELSE [st EXCEPT
                     !.current = IF next_payment_estimate <= target_end_date
                                    /\ (e.rental_count = 0 \/ st.count + 1 < e.rental_count)
                                 THEN stepped ELSE @,
                     !.count = @ + 1,
                     !.appended = IF @ = None THEN Some(st.current)
                                  ELSE Some(Max(@[1], st.current))]
        Moved(e, day_of_month, moved) ==
            Loop(e, ApplyDay(moved, day_of_month, eomonth(moved, 0)),
                 ApplyDay(moved, day_of_month, moved))
        Entry(e) ==
            IF st.current > target_end_date THEN Leave
            ELSE IF e.rental_count > 0 /\ st.count >= e.rental_count THEN Leave
            ELSE IF MonthsOutOfRange(st.current, frequency_months)
            THEN LoopRaised(YearError)
            ELSE Moved(e, ParsedDayOfMonth(ld, e.start_date),
                       edate(st.current, frequency_months))
    IN  Entry(ld.rental_schedule[st.entry_idx])

\* one pass of "while current_payment_date <= lease_end_date" after the entries
ContinuePaymentsPass(ld, st) ==
    LET frequency_months == EntryFrequency(ld)
        Leave == [st EXCEPT !.at = "month_ends", !.current = ld.lease_start_date[1]]
        Then(next_payment_estimate) ==
            IF next_payment_estimate > ld.end_date[1] THEN Leave
            ELSE [st EXCEPT !.current = next_payment_estimate]
    IN  IF st.current > ld.end_date[1] THEN Leave
        ELSE IF MonthsOutOfRange(st.current, frequency_months) THEN LoopRaised(YearError)
        ELSE Then(EstimateRawDay(ld, edate(st.current, frequency_months)))

\* one pass of "while current_date <= end_date" over the month ends
MonthEndRowsPass(ld, st) ==
    LET NextMonth(f) == IF f.month = 12 THEN MkDate(f.year + 1, 1, 1)
                        ELSE MkDate(f.year, f.month + 1, 1)
    IN  IF st.current > ld.end_date[1] THEN [st EXCEPT !.at = "done"]
        ELSE [st EXCEPT !.current = NextMonth(Fields(st.current))]

\* one pass of "for i in range(1, 50001)"
DateLoopPass(ld, st) ==
    LET Stepped(loop) ==
            [at |-> IF loop.mode = "raised" THEN "raised"
                    ELSE IF loop.mode = "ok" \/ st.i >= 50000 THEN "done"
                    ELSE "dates",
             i |-> st.i + 1, loop |-> loop]
    IN  Stepped(DateStep(ld, st.loop, st.i,
                         _get_rental_from_schedule(ld, firstpaymentDate(ld))))

\* findrent up to its while loop
EnterFindRent(ld, app) ==
    LET Go(entry) ==
            [at |-> IF ~entry.done THEN "lookup"
                    ELSE IF entry.last.status = "raised" THEN "raised" ELSE "done",
             app |-> app, c |-> entry.c, i |-> entry.i, k |-> entry.k,
             offse |-> entry.offse, iterations |-> 0, last |-> entry.last]
    IN  Go(FindRentEntry(ld, app))

\* one pass of "while i < 201"
FindRentLoopPass(ld, st) ==
    LET Go(pass) ==
            [st EXCEPT
                !.at = IF ~pass.done THEN "lookup"
                       ELSE IF pass.last.status = "raised" THEN "raised" ELSE "done",
                !.i = pass.i, !.k = pass.k, !.offse = pass.offse,
                !.iterations = @ + 1, !.last = pass.last]
    IN  IF ~(st.i < 201) THEN [st EXCEPT !.at = "done"]
        ELSE Go(FindRentPass(st.c, st.app, st.i, st.k, st.offse, st.iterations))

\* a traversal that follows modifies_this_id for as long as there is one
EndlessChain(ld, st) ==
    IF Truthy(ld.modifies_this_id) /\ ld.modifies_this_id[1] > 0
    THEN [st EXCEPT !.current_id = ld.modifies_this_id[1], !.hops = @ + 1]
    ELSE [st EXCEPT !.at = "done"]

\* one pass of "for _ in range(100)" of _find_original_lease_id: either
\* branch of the pass ends in break
ChainPass(ld, st) ==
    IF st.hops >= 100 THEN [st EXCEPT !.at = "done"]
    ELSE IF Truthy(ld.modifies_this_id) /\ ld.modifies_this_id[1] > 0
    THEN [at |-> "done", current_id |-> ld.modifies_this_id[1], hops |-> st.hops + 1]
    ELSE [at |-> "done", current_id |-> st.current_id, hops |-> st.hops + 1]

\* a contract with a rental schedule whose frequency, segments and end date
\* a caller can get wrong: the segment lies in the term, a year before it,
\* a year after it, or one in the term is followed by one after it
LoopContract(term, frequency_months, placement, mid_month, rental_count) ==
    LET lease_end == eomonth(LeaseStart, term - 1) - (IF mid_month THEN 10 ELSE 0)
        inside == RentalEntry(LeaseStart, lease_end, rental_count, 1000)
        early == RentalEntry(AddMonths(LeaseStart, 0 - 12), LeaseStart - 1, rental_count, 1000)
        late == RentalEntry(AddMonths(LeaseStart, 12) + 14, AddMonths(LeaseStart, 24),
                            rental_count, 1000)
    IN  [LeaseData(5) EXCEPT
            !.lease_start_date = Some(LeaseStart),
            !.end_date = Some(lease_end),
            !.first_payment_date = Some(LeaseStart + 4),
            !.frequency_months = frequency_months,
            !.day_of_month = DayStr(5),
            !.borrowing_rate = Some(12),
            !.rental_schedule =
                CASE placement = "inside" -> <<inside>>
                  [] placement = "before" -> <<early>>
                  [] placement = "after" -> <<late>>
                  [] OTHER -> <<inside, late>>]

Frequencies == {0 - 12, 0, 1, 3}

MalformedContracts ==
    { LoopContract(term, frequency_months, placement, mid_month, rental_count) :
          term \in {1, MaxTermMonths}, frequency_months \in Frequencies,
          placement \in {"inside", "before", "after", "split"},
          mid_month \in BOOLEAN, rental_count \in {1, 12} }
    \cup { EscalationLease(term, frequency_months, day, first_payment_date, escalation, <<>>) :
               term \in 1 .. MaxTermMonths, frequency_months \in Frequencies,
               day \in {DayStr(1), DayLast},
               first_payment_date \in {LeaseStart, LeaseStart + 14},
               escalation \in {"none", "from_start", "offset"} }
    \cup { [LoopContract(1, 1, "inside", FALSE, 1) EXCEPT !.modifies_this_id = Some(id)] :
               id \in {0, 5, 7} }

InitLoops ==
    /\ contract \in MalformedContracts
    /\ pc = "idle"
    /\ outcome = NoOutcome
    /\ first = NoOutcome
    /\ before = contract
    /\ rfr = DefaultRateTables
    /\ filters = ProcessingFilters
    /\ query = 0
    /\ result = Unused
    /\ journal = <<>>
    /\ batch = Unused

BeginGenerate ==
    /\ pc = "idle"
    /\ result' = EnterGenerate(contract)
    /\ pc' = result'.at
    /\ query' = query + 1
    /\ UNCHANGED <<contract, outcome, first, before, rfr, filters, journal, batch>>

BeginFindRent ==
    /\ pc = "idle"
    /\ \E rent_no \in RentNumbers : result' = EnterFindRent(contract, rent_no)
    /\ pc' = result'.at
    /\ query' = query + 1
    /\ UNCHANGED <<contract, outcome, first, before, rfr, filters, journal, batch>>

BeginChain ==
    /\ pc = "idle"
    /\ result' = [at |-> "chain", current_id |-> contract.auto_id, hops |-> 0]
    /\ pc' = "chain"
    /\ query' = query + 1
    /\ UNCHANGED <<contract, outcome, first, before, rfr, filters, journal, batch>>

NextEntry ==
    /\ pc = "entries"
    /\ result' = EnterEntry(contract, result)
    /\ pc' = result'.at
    /\ query' = query + 1
    /\ UNCHANGED <<contract, outcome, first, before, rfr, filters, journal, batch>>

AdvanceToStartStep ==
    /\ pc = "advance"
    /\ result' = AdvanceToStartPass(contract, result)
    /\ pc' = result'.at
    /\ query' = query + 1
    /\ UNCHANGED <<contract, outcome, first, before, rfr, filters, journal, batch>>

PaymentDatesStep ==
    /\ pc = "payments"
    /\ result' = PaymentDatesPass(contract, result)
    /\ pc' = result'.at
    /\ query' = query + 1
    /\ UNCHANGED <<contract, outcome, first, before, rfr, filters, journal, batch>>

ContinuePaymentsStep ==
    /\ pc = "continued"
    /\ result' = ContinuePaymentsPass(contract, result)
    /\ pc' = result'.at
    /\ query' = query + 1
    /\ UNCHANGED <<contract, outcome, first, before, rfr, filters, journal, batch>>

MonthEndRowsStep ==
    /\ pc = "month_ends"
    /\ result' = MonthEndRowsPass(contract, result)
    /\ pc' = result'.at
    /\ query' = query + 1
    /\ UNCHANGED <<contract, outcome, first, before, rfr, filters, journal, batch>>

DateLoopStep ==
    /\ pc = "dates"
    /\ result' = DateLoopPass(contract, result)
    /\ pc' = result'.at
    /\ query' = query + 1
    /\ UNCHANGED <<contract, outcome, first, before, rfr, filters, journal, batch>>

FindRentStep ==
    /\ pc = "lookup"
    /\ result' = FindRentLoopPass(contract, result)
    /\ pc' = result'.at
    /\ query' = query + 1
    /\ UNCHANGED <<contract, outcome, first, before, rfr, filters, journal, batch>>

ChainStep ==
    /\ pc = "chain"
    /\ result' = ChainPass(contract, result)
    /\ pc' = result'.at
    /\ query' = query + 1
    /\ UNCHANGED <<contract, outcome, first, before, rfr, filters, journal, batch>>

NextLoops ==
    \/ BeginGenerate
    \/ BeginFindRent
    \/ BeginChain
    \/ NextEntry
    \/ AdvanceToStartStep
    \/ PaymentDatesStep
    \/ ContinuePaymentsStep
    \/ MonthEndRowsStep
    \/ DateLoopStep
    \/ FindRentStep
    \/ ChainStep

\* a call that has not returned or raised makes its next pass
Pass ==
    /\ pc \notin {"done", "raised"}
    /\ query' = query + 1

\* the interpreter keeps running the call: query counts the passes made
SpecLoops == InitLoops /\ [][NextLoops]_vars /\ WF_query(Pass)

\* C18: schedule generation, the escalation rent lookup and the traversal of
\* the modification chain come to an end, by returning or by raising, for
\* every contract: with a zero or negative payment frequency, rental segments
\* outside the lease term, an end date at a month end, or a modification id
\* that is the lease's own; the lookup makes at most 200 passes and the
\* traversal at most 100
C18_LoopsTerminate ==
    /\ []("iterations" \in DOMAIN result => result.iterations <= 200)
    /\ []("hops" \in DOMAIN result => result.hops <= 100)
    /\ <>(pc \in {"done", "raised"})

C18_Witness ==
    /\ pc = "raised"
    /\ contract.frequency_months < 0
    /\ contract.rental_schedule # <<>>
    /\ result.err = YearError

-----------------------------------------------------------------------------
(* Period activity: a caller generates the schedule of a contract and      *)
(* calls calculate_period_activity on it with an opening and a closing     *)
(* date, as process_single_lease does with the dates of its filters        *)

\* monthly rentals in advance, the first one on the lease start date or on
\* the 5th
PeriodContract(term, day, f, date_modified) ==
    [WithFeature(RentalContract(term, DayStr(day), "advance", Some(12)), f) EXCEPT
        !.date_modified = date_modified]

PeriodContracts ==
    { PeriodContract(term, day, f, date_modified) :
          term \in 1 .. MaxTermMonths, day \in {1, 5}, f \in {"plain", "security", "aro"},
          date_modified \in {None, Some(LeaseStart), Some(edate(LeaseStart, 1))} }

OpenDates == {LeaseStart - 1, LeaseStart, eomonth(LeaseStart, 0), LeaseStart + 45}
CloseDates == {eomonth(LeaseStart, k) : k \in 0 .. (MaxTermMonths - 1)}

InitActivity ==
    /\ contract \in PeriodContracts
    /\ pc = "idle"
    /\ outcome = NoOutcome
    /\ first = NoOutcome
    /\ before = contract
    /\ rfr = DefaultRateTables
    /\ filters = ProcessingFilters
    /\ query = None
    /\ result = Unused
    /\ journal = <<>>
    /\ batch = Unused

CalculatePeriodActivity ==
    /\ pc = "called"
    /\ outcome.status = "ok"
    /\ \E start_date \in OpenDates, end_date \in CloseDates :
           /\ start_date < end_date
           /\ query' = <<start_date, end_date>>
           /\ result' = calculate_period_activity(outcome.schedule, start_date, end_date,
                                                  contract.date_modified)
    /\ pc' = "summed"
    /\ UNCHANGED <<contract, outcome, first, before, rfr, filters, journal, batch>>

NextActivity == CallGenerate \/ CalculatePeriodActivity

SpecActivity == InitActivity /\ [][NextActivity]_vars

\* the rows of the schedule dated after open and on or before close
WindowRows(schedule, open, close) ==
    {k \in 1 .. Len(schedule) : open < schedule[k].date /\ schedule[k].date <= close}

\* the sum of Amount(k) over the rows in rows, from row k on
RECURSIVE RowSum(_, _, _, _)
RowSum(schedule, rows, Amount(_), k) ==
    IF k > Len(schedule) THEN 0
    ELSE (IF k \in rows THEN Amount(k) ELSE 0) + RowSum(schedule, rows, Amount, k + 1)

\* C19: calculate_period_activity sums interest, |depreciation|,
\* change_in_rou and aro_interest over exactly the rows with
\* open < date <= close, and rent_paid over the same rows except a row dated
\* at the modification date; a row at the lease start date that carries a
\* payment is among them when open < lease start <= close
C19_PeriodActivitySums ==
    pc = "summed" =>
        LET schedule == outcome.schedule
            rows == WindowRows(schedule, query[1], query[2])
            Interest(k) == schedule[k].interest
            Depreciation(k) == Abs(schedule[k].depreciation)
            ChangeInRou(k) == schedule[k].change_in_rou
            AroInterest(k) == schedule[k].aro_interest
            Rent(k) == IF contract.date_modified = Some(schedule[k].date)
                       THEN 0 ELSE schedule[k].rental_amount
        IN  /\ result.interest = RowSum(schedule, rows, Interest, 1)
            /\ result.depreciation = RowSum(schedule, rows, Depreciation, 1)
            /\ result.change_rou = RowSum(schedule, rows, ChangeInRou, 1)
            /\ result.aro_interest = RowSum(schedule, rows, AroInterest, 1)
            /\ result.rent_paid = RowSum(schedule, rows, Rent, 1)

\* the security PV of the latest row dated on or before d, 0 before the
\* first row
SecurityPvAt(schedule, d) ==
    LET upto == {k \in 1 .. Len(schedule) : schedule[k].date <= d}
    IN  IF upto = {} THEN 0 ELSE schedule[Highest(upto)].security_deposit_pv

\* C20: security_change is the sum, over the rows with open < date <= close,
\* of the row's security_deposit_pv minus that of the row immediately
\* before it in the schedule; for a window that starts after the first row
\* it is the security PV at close minus the security PV at open
C20_SecurityChangeIsConsecutiveDelta ==
    pc = "summed" =>
        LET schedule == outcome.schedule
            rows == WindowRows(schedule, query[1], query[2])
            Delta(k) == IF k > 1
                        THEN schedule[k].security_deposit_pv
                                 - schedule[k - 1].security_deposit_pv
                        ELSE 0
        IN  /\ result.security_change = RowSum(schedule, rows, Delta, 1)
            /\ query[1] >= schedule[1].date =>
                   result.security_change
                       = SecurityPvAt(schedule, query[2]) - SecurityPvAt(schedule, query[1])

-----------------------------------------------------------------------------
(* ProjectionCalculator: forward snapshots of a schedule from a balance    *)
(* date                                                                    *)

\* date.isoformat(): the year, month and day of the date
isoformat(d) == Fields(d)

\* date.fromisoformat, the inverse of isoformat
FromIso(f) == MkDate(f.year, f.month, f.day)

\* forceenddate: the later of date_modified and termination_date
ForceEndDate(ld) ==
    IF ld.date_modified # None /\ ld.termination_date # None
    THEN Some(Max(ld.date_modified[1], ld.termination_date[1]))
    ELSE IF ld.date_modified # None THEN ld.date_modified
    ELSE ld.termination_date

\* max_schedule_date: the latest row date, None for an empty schedule
MaxScheduleDate(schedule) ==
    IF schedule = <<>> THEN None
    ELSE Some(Highest({schedule[k].date : k \in 1 .. Len(schedule)}))

\* the date the projection loop starts from, None where calculate_projections
\* returns [] before the loop
ProjectionStart(schedule, ld, balance_date) ==
    LET BeforeEnd(capped) ==
            {schedule[k].date : k \in {i \in 1 .. Len(schedule) :
                                          schedule[i].date < ld.end_date[1]}}
        AtEnd(capped) ==
            IF ld.end_date # None /\ capped = ld.end_date[1] /\ BeforeEnd(capped) # {}
            THEN Some(Highest(BeforeEnd(capped)))
            ELSE Some(capped)
        From(force, latest) ==
            IF force # None /\ force[1] <= balance_date
               /\ (latest = None \/ latest[1] <= balance_date) THEN None
            ELSE IF force # None /\ force[1] > balance_date THEN None
            ELSE AtEnd(IF latest # None /\ balance_date > latest[1]
                       THEN latest[1] ELSE balance_date)
    IN  From(ForceEndDate(ld), MaxScheduleDate(schedule))

\* the loop of _find_closing_at_date from row k, closing holding the balances
\* of the last row on or before target_date
RECURSIVE FindClosing(_, _, _, _)
FindClosing(schedule, target_date, k, closing) ==
    IF k > Len(schedule) THEN closing
    ELSE IF schedule[k].date = target_date
    THEN [liability |-> schedule[k].lease_liability, rou |-> schedule[k].rou_asset]
    ELSE IF schedule[k].date <= target_date
    THEN FindClosing(schedule, target_date, k + 1,
                     [liability |-> schedule[k].lease_liability,
                      rou |-> schedule[k].rou_asset])
    ELSE closing

_find_closing_at_date(schedule, target_date) ==
    FindClosing(schedule, target_date, 1, [liability |-> 0, rou |-> 0])

\* the loop of ProjectionCalculator._calculate_period_activity from row k; it
\* leaves at the first row dated after to_date
RECURSIVE ProjectedActivity(_, _, _, _, _)
ProjectedActivity(schedule, from_date, to_date, k, act) ==
    IF k > Len(schedule) THEN act
    ELSE IF schedule[k].date > to_date THEN act
    ELSE ProjectedActivity(schedule, from_date, to_date, k + 1,
            IF schedule[k].date > from_date
            THEN [deprp |-> act.deprp + schedule[k].depreciation,
                  inttp |-> act.inttp + schedule[k].interest,
                  RentPaidp |-> act.RentPaidp + schedule[k].rental_amount]
            ELSE act)

_calculate_period_activity(schedule, from_date, to_date) ==
    IF from_date >= to_date THEN [deprp |-> 0, inttp |-> 0, RentPaidp |-> 0]
    ELSE ProjectedActivity(schedule, from_date, to_date, 1,
                           [deprp |-> 0, inttp |-> 0, RentPaidp |-> 0])

\* the dict appended for one projection
Projection(projectionmode, baldatep, closing, act, subl) ==
    [ projection_mode |-> projectionmode,
      projection_date |-> isoformat(baldatep),
      closing_liability |-> closing.liability * subl,
      closing_rou_asset |-> closing.rou * subl,
      depreciation |-> act.deprp * subl,
      interest |-> act.inttp * subl,
      rent_paid |-> act.RentPaidp * subl ]

\* baldatep after the end-of-iteration update of calculate_projections
NextBaldatep(baldatep, period_months, projectionmode, max_projections) ==
    IF projectionmode < max_projections THEN eomonth(baldatep, period_months)
    ELSE baldatep

\* the while loop of calculate_projections, entered with projectionmode
\* snapshots made and baldatep as the previous iteration left it
RECURSIVE ProjectionLoop(_, _, _, _, _, _, _)
ProjectionLoop(schedule, ld, period_months, max_projections, projectionmode, baldatep, projections) ==
    LET subl == IF ld.sublease = "Yes" THEN -1 ELSE 1
        Clamped(advanced) ==
            IF ld.end_date # None /\ ld.end_date[1] < advanced THEN ld.end_date[1]
            ELSE advanced
        Step(opendatep, to, appended) ==
            IF ld.end_date # None /\ ld.end_date[1] < opendatep THEN appended
            ELSE IF ld.end_date # None /\ to >= ld.end_date[1] /\ projectionmode + 1 > 1
            THEN appended
            ELSE ProjectionLoop(schedule, ld, period_months, max_projections,
                                projectionmode + 1,
                                NextBaldatep(to, period_months, projectionmode + 1,
                                             max_projections),
                                appended)
        Body(opendatep, to) ==
            IF to <= opendatep THEN projections
            ELSE Step(opendatep, to,
                      Append(projections,
                             Projection(projectionmode + 1, to,
                                        _find_closing_at_date(schedule, to),
                                        _calculate_period_activity(schedule, opendatep, to),
                                        subl)))
    IN  IF projectionmode >= max_projections THEN projections
        ELSE Body(baldatep, Clamped(eomonth(baldatep, period_months)))

calculate_projections(schedule, ld, balance_date, projection_periods, period_months, enable_projections) ==
    LET Loop(start) ==
            IF start = None THEN <<>>
            ELSE ProjectionLoop(schedule, ld, period_months, Min(projection_periods, 6),
                                0, start[1], <<>>)
    IN  IF ~enable_projections \/ projection_periods <= 0 THEN <<>>
        ELSE Loop(ProjectionStart(schedule, ld, balance_date))

\* monthly rentals of 1000 on the 5th over term months
ProjectionContract(term, f, sublease) ==
    [WithFeature(RentalContract(term, DayStr(5), "advance", Some(12)), f) EXCEPT
        !.sublease = sublease]

ProjectionContracts ==
    { ProjectionContract(term, f, sublease) :
          term \in 1 .. (2 * MaxTermMonths), f \in {"plain", "terminated"},
          sublease \in {"No", "Yes"} }

BalanceDateOffsets == {0 - 1, 0, 14, 30, 59, 90}
ProjectionPeriods == {0, 1, 3, 7}
PeriodMonths == {1, 2, 3}

InitProjection ==
    /\ contract \in ProjectionContracts
    /\ pc = "idle"
    /\ outcome = NoOutcome
    /\ first = NoOutcome
    /\ before = contract
    /\ rfr = DefaultRateTables
    /\ filters = ProcessingFilters
    /\ query = None
    /\ result = Unused
    /\ journal = <<>>
    /\ batch = Unused

\* ProjectionCalculator(schedule, lease_data).calculate_projections(...)
CalculateProjections ==
    /\ pc = "called"
    /\ outcome.status = "ok"
    /\ \E k \in BalanceDateOffsets, projection_periods \in ProjectionPeriods,
          period_months \in PeriodMonths, enable_projections \in BOOLEAN :
           /\ query' = [balance_date |-> LeaseStart + k,
                        projection_periods |-> projection_periods,
                        period_months |-> period_months,
                        enable_projections |-> enable_projections]
           /\ result' = calculate_projections(outcome.schedule, contract, LeaseStart + k,
                                              projection_periods, period_months,
                                              enable_projections)
    /\ pc' = "projected"
    /\ UNCHANGED <<contract, outcome, first, before, rfr, filters, journal, batch>>

NextProjection == CallGenerate \/ CalculateProjections

SpecProjection == InitProjection /\ [][NextProjection]_vars

\* the date of snapshot k
SnapshotDate(k) == FromIso(result[k].projection_date)

\* the date at which the window of snapshot k opens: the balance date for the
\* first snapshot, the previous snapshot's date for a later one
WindowOpens(k) == IF k = 1 THEN query.balance_date ELSE SnapshotDate(k - 1)

\* the sum of a column over the rows dated after open and on or before close
ColumnSum(schedule, column, open, close) ==
    LET Amount(k) == schedule[k][column]
    IN  RowSum(schedule, WindowRows(schedule, open, close), Amount, 1)

\* C21: calculate_projections returns at most min(projection_periods, 6)
\* snapshots; the first window opens at the balance date and every later
\* one at the previous snapshot's date, so that consecutive snapshot dates
\* are period_months months apart and every row between the balance date
\* and the last snapshot date is counted in exactly one snapshot's
\* interest, depreciation and rent
C21_SnapshotWindowsAreConsecutive ==
    pc = "projected" =>
        LET schedule == outcome.schedule
            subl == IF contract.sublease = "Yes" THEN -1 ELSE 1
        IN  /\ Len(result) <= Min(query.projection_periods, 6)
            /\ \A k \in 1 .. Len(result) :
                   /\ result[k].interest
                          = subl * ColumnSum(schedule, "interest", WindowOpens(k), SnapshotDate(k))
                   /\ result[k].depreciation
                          = subl * ColumnSum(schedule, "depreciation", WindowOpens(k),
                                             SnapshotDate(k))
                   /\ result[k].rent_paid
                          = subl * ColumnSum(schedule, "rental_amount", WindowOpens(k),
                                             SnapshotDate(k))
            /\ \A k \in 2 .. Len(result) :
                   SnapshotDate(k) \in {eomonth(SnapshotDate(k - 1), query.period_months),
                                        contract.end_date[1]}

\* C22: the snapshot dates are strictly increasing and never later than the
\* lease end date; when the lease ends inside the projection horizon, the
\* last snapshot is dated exactly at the lease end date
C22_SnapshotsStopAtLeaseEnd ==
    (pc = "projected" /\ result # <<>>) =>
        /\ \A k \in 2 .. Len(result) : SnapshotDate(k - 1) < SnapshotDate(k)
        /\ \A k \in 1 .. Len(result) : SnapshotDate(k) <= contract.end_date[1]
        /\ (/\ query.balance_date < contract.end_date[1]
            /\ contract.end_date[1]
                   <= eomonth(query.balance_date,
                              Min(query.projection_periods, 6) * query.period_months)) =>
               SnapshotDate(Len(result)) = contract.end_date[1]

-----------------------------------------------------------------------------
(* Terms of a contract that shape the rows of its schedule: a purchase     *)
(* option, the payment frequency, the day of the month, the placement of   *)
(* the rental segments                                                      *)

PurchasePrices == {None, Some(5000)}

\* contracts with and without a purchase option, with a rental schedule and
\* without one
PurchaseContracts ==
    { [RentalContract(term, day, payment_type, Some(12)) EXCEPT
          !.purchase_option_price = price] :
          term \in 1 .. MaxTermMonths, day \in {DayStr(5), DayLast},
          payment_type \in {"advance", "arrear"}, price \in PurchasePrices }
    \cup { [EscalationLease(term, frequency_months, day, LeaseStart, "none", <<>>) EXCEPT
               !.purchase_option_price = price] :
               term \in 1 .. MaxTermMonths, frequency_months \in {1, 3},
               day \in {DayStr(1), DayStr(15), DayLast}, price \in PurchasePrices }

\* payments every month or every quarter on the 5th, to a lease end on a
\* month end or ten days before it; without a rental schedule, a first
\* payment two weeks, a month, or two and a half months after the start
CadenceContracts ==
    { LoopContract(term, frequency_months, "inside", mid_month, term) :
          term \in 1 .. MaxTermMonths, frequency_months \in {1, 3}, mid_month \in BOOLEAN }
    \cup { EscalationLease(term, frequency_months, day, first_payment_date, "none", <<>>) :
               term \in 1 .. MaxTermMonths, frequency_months \in {1, 3},
               day \in {DayStr(1), DayLast},
               first_payment_date \in {LeaseStart + 14, LeaseStart + 31, LeaseStart + 74} }

\* monthly rentals over term months from the first of January or of
\* February, paid on the 5th, on the 31st or on the last day of the month
DayContract(lease_start, term, day) ==
    LET lease_end == eomonth(lease_start, term - 1)
    IN  [LeaseData(6) EXCEPT
            !.lease_start_date = Some(lease_start),
            !.end_date = Some(lease_end),
            !.first_payment_date =
                IF day.kind = "Last" THEN None
                ELSE Some(ReplaceDay(lease_start,
                                     Min(day.val, DayOf(eomonth(lease_start, 0))))),
            !.day_of_month = day,
            !.borrowing_rate = Some(12),
            !.rental_schedule = <<RentalEntry(lease_start, lease_end, term, 1000)>>]

DayContracts ==
    { DayContract(lease_start, term, day) :
          lease_start \in {LeaseStart, AddMonths(LeaseStart, 1)},
          term \in 1 .. MaxTermMonths, day \in {DayStr(5), DayStr(31), DayLast} }

\* the dates given to the post-passes: the 20th of January and the 10th of
\* April have no row, the end of January and the 5th of February have one
PostPassDates ==
    {Some(LeaseStart + 19), Some(LeaseStart + 100), Some(eomonth(LeaseStart, 0)),
     Some(LeaseStart + 35)}

\* a contract with two security-deposit increases, two impairments or two
\* manual rental dates
PostPassContract(term, pass, d1, d2) ==
    LET ld == RentalContract(term, DayStr(5), "advance", Some(12))
    IN  CASE pass = "security" ->
               [ld EXCEPT !.security_deposit = Some(1000), !.security_discount = Some(6),
                          !.security_dates = <<d1, d2>>,
                          !.increase_security = <<Some(500), Some(300), None, None>>]
          [] pass = "impairment" ->
               [ld EXCEPT !.impairment_dates = <<d1, d2>>,
                          !.impairments = <<Some(100), Some(200), None, None, None>>]
          [] OTHER ->
               [ld EXCEPT !.manual_adj = "Yes", !.rental_dates = <<d1, d2>>]

PostPassContracts ==
    { PostPassContract(term, pass, d1, d2) :
          term \in 2 .. MaxTermMonths, pass \in {"security", "impairment", "manual"},
          d1 \in PostPassDates, d2 \in PostPassDates }

\* useful lives given to a lease with a bargain purchase option: none, the
\* 30th and 31st of January, the 4th and 15th of February, the 30th of June
UsefulLives ==
    {None, Some(LeaseStart + 29), Some(LeaseStart + 30), Some(LeaseStart + 34),
     Some(LeaseStart + 45), Some(LeaseStart + 181)}

\* a lease whose ROU end-of-life is its useful life
EndOfLifeContract(term, gaap_standard, useful_life) ==
    [RentalContract(term, DayStr(5), "advance", Some(12)) EXCEPT
        !.gaap_standard = gaap_standard,
        !.bargain_purchase = "Yes",
        !.useful_life = useful_life]

EndOfLifeContracts ==
    { EndOfLifeContract(term, gaap_standard, useful_life) :
          term \in 1 .. MaxTermMonths, gaap_standard \in {"IFRS", "US-GAAP"},
          useful_life \in UsefulLives }

\* payment frequencies and compound_months values (0 stands for no frequency)
CompoundFrequencies == {0, 1, 2, 3, 6, 12, 24}

CompoundMonths == {None, Some(1), Some(2), Some(3), Some(6), Some(12), Some(24)}

CompoundContract(term, frequency_months, compound_months) ==
    [RentalContract(term, DayStr(5), "advance", Some(12)) EXCEPT
        !.frequency_months = frequency_months,
        !.compound_months = compound_months]

CompoundContracts ==
    { CompoundContract(term, frequency_months, compound_months) :
          term \in 2 .. MaxTermMonths, frequency_months \in CompoundFrequencies,
          compound_months \in CompoundMonths }

\* one rental segment that starts start_offset days from the lease start and
\* ends end_offset days from the lease end
OverhangContract(term, start_offset, end_offset, first_payment_date, day) ==
    LET lease_end == eomonth(LeaseStart, term - 1)
    IN  [LeaseData(7) EXCEPT
            !.lease_start_date = Some(LeaseStart),
            !.end_date = Some(lease_end),
            !.first_payment_date = first_payment_date,
            !.day_of_month = day,
            !.borrowing_rate = Some(12),
            !.rental_schedule =
                <<RentalEntry(LeaseStart + start_offset, lease_end + end_offset, term, 1000)>>]

OverhangContracts ==
    { OverhangContract(term, start_offset, end_offset, first_payment_date, day) :
          term \in 1 .. MaxTermMonths, start_offset \in {0 - 45, 0 - 1, 0},
          end_offset \in {0, 1, 45}, first_payment_date \in {None, Some(LeaseStart + 4)},
          day \in {DayStr(5), DayLast} }

TermContracts ==
    PurchaseContracts \cup CadenceContracts \cup DayContracts \cup PostPassContracts
        \cup EndOfLifeContracts \cup CompoundContracts \cup OverhangContracts

InitTerms ==
    /\ contract \in TermContracts
    /\ pc = "idle"
    /\ outcome = NoOutcome
    /\ first = NoOutcome
    /\ before = contract
    /\ rfr = DefaultRateTables
    /\ filters = ProcessingFilters
    /\ query = None
    /\ result = Unused
    /\ journal = <<>>
    /\ batch = Unused

NextTerms == CallGenerate

SpecTerms == InitTerms /\ [][NextTerms]_vars

\* the rental_amount of the rows dated d, in schedule order
RentalsAt(schedule, d) ==
    LET rows == SelectSeq(schedule, LAMBDA row : row.date = d)
    IN  [k \in 1 .. Len(rows) |-> rows[k].rental_amount]

\* the schedule of the same contract without its purchase option
WithoutPurchaseOption(ld) ==
    generate_complete_schedule([ld EXCEPT !.purchase_option_price = None], rfr)

\* C23: for a contract with a purchase-option price P > 0, with a rental
\* schedule as well as without one, the row dated at end_date has
\* rental_amount P when no payment falls on end_date, and that payment plus
\* P when one does
C23_PurchaseOptionOnEndRow ==
    (/\ pc = "called"
     /\ outcome.status = "ok"
     /\ OrZero(contract.purchase_option_price) > 0) =>
        LET end_date == contract.end_date[1]
            Paid(base) ==
                IF base.status = "ok" /\ RentalsAt(base.schedule, end_date) # <<>>
                THEN RentalsAt(base.schedule, end_date)[1] ELSE 0
        IN  RentalsAt(outcome.schedule, end_date)
               = <<Paid(WithoutPurchaseOption(contract)) + contract.purchase_option_price[1]>>

\* the month ends after the lease start and on or before the day last
MonthEndsUpTo(ld, last) ==
    {m \in (ld.lease_start_date[1] + 1) .. last : eomonth(m, 0) = m}

\* a month end on which the contract's day of the month falls: "Last", or a
\* day the month does not reach
PaysOnMonthEnd(ld, m) ==
    \/ ld.day_of_month.kind = "Last"
    \/ ld.day_of_month.kind = "str" /\ ld.day_of_month.val >= DayOf(m)

\* C24: for every month end m with lease start < m <= end_date the schedule
\* has a row dated m, whose rental_amount is 0 unless m is a payment date;
\* no month-end row is dated after end_date
C24_MonthEndRows ==
    (/\ pc = "called"
     /\ outcome.status = "ok"
     /\ contract \in PurchaseContracts \cup CadenceContracts \cup DayContracts
     /\ contract.purchase_option_price = None) =>
        /\ \A m \in MonthEndsUpTo(contract, contract.end_date[1]) :
               /\ HasRowAt(outcome.schedule, m)
               /\ PaysOnMonthEnd(contract, m)
                  \/ \A k \in 1 .. Len(outcome.schedule) :
                         outcome.schedule[k].date = m => outcome.schedule[k].rental_amount = 0
        /\ \A k \in 1 .. Len(outcome.schedule) :
               outcome.schedule[k].date > contract.end_date[1] =>
                   eomonth(outcome.schedule[k].date, 0) # outcome.schedule[k].date

\* the dates of the rows that carry a rental, in schedule order
PaidDates(schedule) ==
    LET rows == SelectSeq(schedule, LAMBDA row : row.rental_amount > 0)
    IN  [k \in 1 .. Len(rows) |-> rows[k].date]

\* the day of d's month on which the contract pays
PaymentDay(ld, d) ==
    IF ld.day_of_month.kind = "Last" THEN DayOf(eomonth(d, 0))
    ELSE Min(ld.day_of_month.val, DayOf(eomonth(d, 0)))

\* C25: every regular payment after the first falls on
\* min(day_of_month, days in its month) for a numeric day, and on the last
\* day of its month for "Last", whatever the length of the month in which the
\* lease or the rental segment starts
C25_PaymentsOnDayOfMonth ==
    (pc = "called" /\ outcome.status = "ok" /\ contract \in DayContracts) =>
        \A k \in 2 .. Len(PaidDates(outcome.schedule)) :
            DayOf(PaidDates(outcome.schedule)[k])
                = PaymentDay(contract, PaidDates(outcome.schedule)[k])

\* the contract with entry i of its post-pass lists as the only entry
OnlyEntry(ld, i) ==
    [ld EXCEPT
        !.security_dates = IF i <= Len(@) THEN <<@[i]>> ELSE <<>>,
        !.increase_security = <<@[i], None, None, None>>,
        !.impairment_dates = IF i <= Len(@) THEN <<@[i]>> ELSE <<>>,
        !.impairments = <<@[i], None, None, None, None>>,
        !.rental_dates = IF i <= Len(@) THEN <<@[i]>> ELSE <<>>]

\* the three post-passes, as generate_complete_schedule chains them
PostPasses(ld, schedule) ==
    _apply_manual_rental_adjustments(ld,
        _apply_impairments(ld, _apply_security_deposit_increases(ld, schedule)))

\* the schedule of the contract before the post-passes
BeforePostPasses(ld) == _apply_basic_calculations(ld, rfr, RentalScheduleRows(ld)).schedule

\* C26: an increase, impairment or manual override whose date matches no row
\* changes nothing, and every other entry of the same list whose date
\* matches a row is still applied to that row: the schedule is the one
\* obtained by applying each entry on its own
C26_UnmatchedDateIsNoOp ==
    (pc = "called" /\ outcome.status = "ok" /\ contract \in PostPassContracts) =>
        outcome.schedule
            = PostPasses(OnlyEntry(contract, 2),
                         PostPasses(OnlyEntry(contract, 1), BeforePostPasses(contract)))

\* rows k whose period is empty or starts at or after the ROU end-of-life
\* carry no interest, respectively no depreciation
GuardedRowsAreZero(ld, schedule) ==
    LET endoflife == _calculate_end_of_life_vba(ld, schedule[Len(schedule)].date)
    IN  \A k \in 2 .. Len(schedule) :
            /\ schedule[k].date = schedule[k - 1].date => schedule[k].interest = 0
            /\ schedule[k - 1].date >= endoflife => schedule[k].depreciation = 0

\* C27: no step of the amortization pass divides by zero: with a zero-length
\* period, coincident row dates or a row at or after the ROU end-of-life
\* (also one earlier than the lease end) the schedule is produced and the
\* guarded interest and depreciation are 0, under both depreciation formulas
C27_NoDivisionByZero ==
    (pc = "called" /\ contract \in EndOfLifeContracts) =>
        /\ outcome.err # "ZeroDivisionError"
        /\ outcome.status = "ok" => GuardedRowsAreZero(contract, outcome.schedule)

\* every PV factor and every interest of the schedule is computed with the
\* compounding period m
UsesCompound(ld, schedule, m) ==
    \A k \in 2 .. Len(schedule) :
        LET days_from_start == schedule[k].date - schedule[1].date
            days_between == schedule[k].date - schedule[k - 1].date
        IN  /\ schedule[k].pv_factor = PvFactor(ld.borrowing_rate[1], m, days_from_start)
            /\ days_between > 0 =>
                   schedule[k].interest
                       = MulFactor(schedule[k - 1].lease_liability,
                                   Growth(ld.borrowing_rate[1], m, days_between) - Scale)

\* the compounding period derived from the payment frequency
FromFrequency(freq) ==
    IF freq = 3 THEN 3 ELSE IF freq = 6 THEN 6 ELSE IF freq >= 12 THEN 12 ELSE 1

\* the payment frequency, 1 when there is none
FrequencyOrOne(ld) == IF ld.frequency_months = 0 THEN 1 ELSE ld.frequency_months

\* C28 as stated: the compounding period of the PV factors and the interest
\* is the one derived from the payment frequency (3, 6, 12 for 12 or more,
\* else 1), whatever compound_months says
C28_CompoundDerivedFromFrequency ==
    (pc = "called" /\ outcome.status = "ok" /\ contract \in CompoundContracts) =>
        UsesCompound(contract, outcome.schedule, FromFrequency(FrequencyOrOne(contract)))

\* C28 amended: an explicit compound_months is used exactly when it equals
\* the payment frequency itself, and is then the compounding period even
\* when it is none of 1, 3, 6, 12; any other compound_months is ignored and
\* the period is the one derived from the frequency
C28_CompoundMatchesFrequency ==
    (pc = "called" /\ outcome.status = "ok" /\ contract \in CompoundContracts) =>
        UsesCompound(contract, outcome.schedule,
                     IF contract.compound_months = Some(FrequencyOrOne(contract))
                     THEN FrequencyOrOne(contract)
                     ELSE FromFrequency(FrequencyOrOne(contract)))

\* a schedule compounded every 2 months because compound_months equals the
\* frequency 2
C28_Witness ==
    /\ pc = "called"
    /\ outcome.status = "ok"
    /\ contract \in CompoundContracts
    /\ contract.frequency_months = 2
    /\ contract.compound_months = Some(2)
    /\ Len(outcome.schedule) >= 3
    /\ UsesCompound(contract, outcome.schedule, 2)
    /\ ~UsesCompound(contract, outcome.schedule, 1)

-----------------------------------------------------------------------------
(* The counters of process_bulk_leases *)

\* C29: process_bulk_leases accounts for every input lease exactly once: on
\* return processed_count + skipped_count = total_count, and there are as
\* many individual result rows as processed leases
C29_EveryLeaseCountedOnce ==
    (pc = "bulked" /\ outcome.status = "ok") =>
        /\ outcome.total_count = Len(batch)
        /\ outcome.processed_count + outcome.skipped_count = outcome.total_count
        /\ Len(outcome.results) = outcome.processed_count

-----------------------------------------------------------------------------
(* The dates of the rows of a schedule built from rental segments *)

\* the indices of the rows flagged is_opening
OpeningRows(schedule) == {k \in 1 .. Len(schedule) : schedule[k].is_opening}

\* C30: every row of a generated schedule is dated within
\* [lease_start_date, end_date]; the first row is dated lease_start_date and
\* is the only row flagged is_opening, and the last row is dated end_date,
\* also when a rental segment starts before the lease start or ends after
\* the lease end
C30_RowsWithinLeaseTerm ==
    (pc = "called" /\ outcome.status = "ok" /\ contract \in OverhangContracts) =>
        /\ outcome.schedule # <<>>
        /\ \A k \in 1 .. Len(outcome.schedule) :
               /\ contract.lease_start_date[1] <= outcome.schedule[k].date
               /\ outcome.schedule[k].date <= contract.end_date[1]
        /\ outcome.schedule[1].date = contract.lease_start_date[1]
        /\ OpeningRows(outcome.schedule) = {1}
        /\ outcome.schedule[Len(outcome.schedule)].date = contract.end_date[1]
====
